---- MODULE Spec2Model ----
(***************************************************************************)
(* Model of the rank interpolation engine (backend/rank_calculator.py)     *)
(* and of the tiered school recommender (backend/school_recommender.py).   *)
(*                                                                         *)
(* Scores are exact decimals in the program's inputs; the model counts     *)
(* them in thousandths of a point (Unit = 1000 per point) so that the      *)
(* two-decimal precision test can be given scores with three decimals.     *)
(* Floating-point products and quotients are modelled by their exact       *)
(* rational value.                                                         *)
(***************************************************************************)
EXTENDS Integers, Sequences, FiniteSets, TLC

VARIABLES data, calc, result, admission, rec, analysis, seen,
          db, cache, interpolators, svc, kept, asked, threads,
          logfile, lock, loggers, made, http, loads

vars == <<data, calc, result, admission, rec, analysis, seen,
          db, cache, interpolators, svc, kept, asked, threads,
          logfile, lock, loggers, made, http, loads>>

rankVars == <<data, calc, result>>
recVars == <<admission, rec>>
anaVars == <<analysis, seen>>
svcVars == <<db, cache, interpolators, svc, loads>>
callerVars == <<kept, asked>>
logVars == <<logfile, lock, loggers, made, http>>

\* what the operations of one component leave alone
outsideRank == <<recVars, anaVars, svcVars, threads, logVars>>
outsideRecommend == <<rankVars, anaVars, svcVars, callerVars, threads, logVars>>
outsideAnalysis == <<rankVars, recVars, svcVars, callerVars, threads, logVars>>
outsideService == <<rankVars, recVars, anaVars, threads, logVars, loads>>
outsideCallers == <<rankVars, recVars, anaVars, callerVars, db, svc, logVars>>
outsideThreads == <<outsideCallers, loads>>
outsideLogger == <<rankVars, recVars, anaVars, svcVars, callerVars, threads>>

-----------------------------------------------------------------------------
(* Bounds of the model *)

\* number of score levels of the known year's table
NumLevels == 4
\* largest cumulative count stored in a record
MaxCount == 2

\* thousandths per point
Unit == 10 * 100

\* the Python value None, for a score or a rank that is not set
None == 0 - Unit * Unit

\* inclusive limits of a legal score, in points
MinScore == 0
MaxScore == 800

\* the year the data provider has records for, and one it has none for
KnownYear == 2025
UnknownYear == KnownYear - 26
Years == {KnownYear, UnknownYear}

\* scores of the records of the known year (points 750, 650, 550, ...)
LevelPoints(i) == 750 - 100 * (i - 1)
LevelScores == {LevelPoints(i) * Unit : i \in 1..NumLevels}

\* scores a caller asks about: the record scores, the midpoints under
\* them, both ends of the legal range, scores outside the range and
\* scores with two and with three decimals
QueryScores ==
    LevelScores
    \cup {s - 50 * Unit : s \in LevelScores}
    \cup {MinScore * Unit, MaxScore * Unit}
    \cup {0 - 10, MaxScore * Unit + 10}
    \cup {750120, 750123, 50123, 5}

-----------------------------------------------------------------------------
(* Helpers standing for Python built-ins *)

\* Python round() / numpy.round(): nearest integer, ties to the even one
\* (num >= 0, den > 0)
RoundHalfEven(num, den) ==
    LET q == num \div den
        r == num % den
    IN  IF 2 * r < den THEN q
        ELSE IF 2 * r > den THEN q + 1
        ELSE IF q % 2 = 0 THEN q ELSE q + 1

Abs(x) == IF x < 0 THEN 0 - x ELSE x

Max(a, b) == IF a >= b THEN a ELSE b
Min(a, b) == IF a <= b THEN a ELSE b

SetMax(S) == CHOOSE x \in S : \A y \in S : y <= x

\* list.sort(reverse=True) of a set of distinct scores
RECURSIVE SortDesc(_)
SortDesc(S) ==
    IF S = {} THEN <<>>
    ELSE LET m == SetMax(S) IN <<m>> \o SortDesc(S \ {m})

RECURSIVE SetSum(_)
SetSum(S) == IF S = {} THEN 0 ELSE LET x == SetMax(S) IN x + SetSum(S \ {x})

-----------------------------------------------------------------------------
(* Data provider: data.get_data_by_year *)

\* a record of the static table: score and the two cumulative counts
ScoreRecord(i, c, n) ==
    [score |-> LevelPoints(i) * Unit, total_city |-> c, inner_six |-> n]

\* every table the provider can hold for the known year: one record per
\* level, each count between 0 (no data for that population) and MaxCount
AllTables ==
    {[i \in 1..NumLevels |-> ScoreRecord(i, f[i][1], f[i][2])] :
        f \in [1..NumLevels -> (0..MaxCount) \X (0..MaxCount)]}

\* cumulative counts never grow as the score grows, per population, among
\* the records that carry data for it (records are listed by falling score)
Cumulative(t) ==
    \A i, j \in DOMAIN t :
        i < j =>
            /\ (t[i].total_city > 0 /\ t[j].total_city > 0
                    => t[i].total_city <= t[j].total_city)
            /\ (t[i].inner_six > 0 /\ t[j].inner_six > 0
                    => t[i].inner_six <= t[j].inner_six)

YearTables == {t \in AllTables : Cumulative(t)}

get_data_by_year(year) == IF year \in DOMAIN data THEN data[year] ELSE <<>>

-----------------------------------------------------------------------------
(* ImprovedRankCalculator *)

NoCalc == [loaded |-> FALSE]
NoResult == [status |-> "none"]

\* scores with a positive count, per population
CityScores(year_data) ==
    {year_data[i].score : i \in {j \in DOMAIN year_data : year_data[j].total_city > 0}}
InnerScores(year_data) ==
    {year_data[i].score : i \in {j \in DOMAIN year_data : year_data[j].inner_six > 0}}

\* the last record of a given score wins, as successive dict assignments do
LastIndex(year_data, s, S) ==
    SetMax({j \in DOMAIN year_data : year_data[j].score = s /\ j \in S})

\* record['total_city'] for record in year_data if record['total_city'] > 0
CityTotals(year_data) ==
    {year_data[j].total_city :
        j \in {k \in DOMAIN year_data : year_data[k].total_city > 0}}

InnerTotalsUnfiltered(year_data) ==
    {year_data[j].inner_six : j \in DOMAIN year_data}

\* record['inner_six'] for record in year_data if record['inner_six'] > 0
InnerTotals(year_data) ==
    {year_data[j].inner_six :
        j \in {k \in DOMAIN year_data : year_data[k].inner_six > 0}}

TotalStudentsSum(counts) == SetSum(counts)

\* the total of a population is its largest cumulative count
TotalStudents(counts) == SetMax(counts)

\* ImprovedRankCalculator._load_data: the fields of the constructed object,
\* or the exception the constructor raises (max() of an empty sequence
\* raises ValueError, as the explicit check of the year's records does)
_load_data(year) ==
    LET year_data == get_data_by_year(year)
        cityIdx == {j \in DOMAIN year_data : year_data[j].total_city > 0}
        innerIdx == {j \in DOMAIN year_data : year_data[j].inner_six > 0}
    IN  IF year_data = <<>>
        THEN [loaded |-> FALSE, error |-> "no_year_data"]
        ELSE IF CityTotals(year_data) = {} \/ InnerTotals(year_data) = {}
        THEN [loaded |-> FALSE, error |-> "max_of_empty"]
        ELSE [loaded |-> TRUE,
              year |-> year,
              score_rank_map_city |->
                  [s \in CityScores(year_data) |->
                      year_data[LastIndex(year_data, s, cityIdx)].total_city],
              score_rank_map_inner |->
                  [s \in InnerScores(year_data) |->
                      year_data[LastIndex(year_data, s, innerIdx)].inner_six],
              sorted_scores |->
                  SortDesc(CityScores(year_data) \cup InnerScores(year_data)),
              total_students_city |-> TotalStudents(CityTotals(year_data)),
              total_students_inner |-> TotalStudents(InnerTotals(year_data))]

\* the first scan of _linear_interpolate over sorted_scores (descending):
\* <<higher_score, lower_score>> when the loop ends
RECURSIVE FindAdjacent(_, _, _, _)
FindAdjacent(sorted_scores, i, score, higher) ==
    IF i > Len(sorted_scores) THEN <<higher, None>>
    ELSE LET s == sorted_scores[i]
         IN  IF s > score
             THEN FindAdjacent(sorted_scores, i + 1, score, s)
             ELSE IF s < score /\ higher # None
             THEN <<higher, s>>
             ELSE FindAdjacent(sorted_scores, i + 1, score, higher)

\* the second scan of _linear_interpolate, run when a bracket has no data
\* for the population: <<higher_score, lower_score>> when the loop ends
RECURSIVE WidenAdjacent(_, _, _, _, _, _)
WidenAdjacent(sorted_scores, i, score, score_rank_map, higher, lower) ==
    IF i > Len(sorted_scores) THEN <<higher, lower>>
    ELSE LET s == sorted_scores[i]
         IN  IF s \in DOMAIN score_rank_map
             THEN IF s > score /\ (higher = None \/ s < higher)
                  THEN WidenAdjacent(sorted_scores, i + 1, score,
                                     score_rank_map, s, lower)
                  ELSE IF s < score /\ (lower = None \/ s > lower)
                  THEN WidenAdjacent(sorted_scores, i + 1, score,
                                     score_rank_map, higher, s)
                  ELSE WidenAdjacent(sorted_scores, i + 1, score,
                                     score_rank_map, higher, lower)
             ELSE WidenAdjacent(sorted_scores, i + 1, score,
                                score_rank_map, higher, lower)

\* higher_rank + fraction * rank_diff, rounded by round()
Interpolate(score, higher_score, lower_score, higher_rank, lower_rank) ==
    RoundHalfEven(higher_rank * (higher_score - lower_score)
                      + (higher_score - score) * (lower_rank - higher_rank),
                  higher_score - lower_score)

\* the rank returned for a score above every score of sorted_scores
TopRank == 1

ExactRankNext(score_rank_map, score) == score_rank_map[score] + 1

\* a score found in the map returns the stored count
ExactRank(score_rank_map, score) == score_rank_map[score]

\* ImprovedRankCalculator._linear_interpolate
_linear_interpolate(c, score, rank_type) ==
    LET score_rank_map == IF rank_type = "city" THEN c.score_rank_map_city
                          ELSE c.score_rank_map_inner
        total_students == IF rank_type = "city" THEN c.total_students_city
                          ELSE c.total_students_inner
        known == DOMAIN score_rank_map
        adj == FindAdjacent(c.sorted_scores, 1, score, None)
        wide == IF adj[1] \notin known \/ adj[2] \notin known
                THEN WidenAdjacent(c.sorted_scores, 1, score, score_rank_map,
                                   adj[1], adj[2])
                ELSE adj
        higher_score == wide[1]
        lower_score == wide[2]
    IN  IF score \in known THEN ExactRank(score_rank_map, score)
        ELSE IF adj[1] = None THEN TopRank
        ELSE IF adj[2] = None THEN total_students
        ELSE IF higher_score \notin known \/ lower_score \notin known
        THEN IF higher_score \in known THEN score_rank_map[higher_score]
             ELSE IF lower_score \in known THEN score_rank_map[lower_score]
             ELSE total_students
        ELSE Interpolate(score, higher_score, lower_score,
                         score_rank_map[higher_score],
                         score_rank_map[lower_score])

ScoreInRangeLowerOnly(score) == MinScore * Unit <= score

\* 0 <= score <= 800
ScoreInRange(score) == MinScore * Unit <= score /\ score <= MaxScore * Unit

\* np.isclose(score * 100, np.round(score * 100)) with numpy's defaults
\* rtol = 1e-5 and atol = 1e-8:  |a - b| <= atol + rtol * |b|,
\* both sides multiplied by 10^9 (score * 100 is score / 10 in model units)
PrecisionOk(score) ==
    LET b == RoundHalfEven(score, 10)
    IN  Abs(score - 10 * b) * 10000000 <= 1 + 1000 * Abs(b)

\* max(1, min(rank, total))
Clamp(rank, total) == Max(1, Min(rank, total))

\* round((rank / total) * 100, 2), in hundredths of a percent; no quotient
\* falls on a rounding tie for the totals reached here
Percentage(rank, total) == RoundHalfEven(rank * 100 * 100, total)

PercentileNoPlusOne(rank, total) ==
    RoundHalfEven((total - rank) * 100 * 100, total)

\* round(((total - rank + 1) / total) * 100, 2), in hundredths of a percent
Percentile(rank, total) ==
    RoundHalfEven((total - rank + 1) * 100 * 100, total)

\* the scan of calculate_rank that names the scores of the method text:
\* <<higher, lower>> when the loop ends
RECURSIVE MethodAdjacent(_, _, _, _)
MethodAdjacent(sorted_scores, i, score, higher) ==
    IF i > Len(sorted_scores) THEN <<higher, None>>
    ELSE LET s == sorted_scores[i]
         IN  IF s > score
             THEN MethodAdjacent(sorted_scores, i + 1, score, s)
             ELSE IF s < score THEN <<higher, s>>
             ELSE MethodAdjacent(sorted_scores, i + 1, score, higher)

\* Python truth value of a score that may be None: None and 0.0 are false
Truthy(s) == s # None /\ s # 0

\* the calculation_method text, as its kind and the two scores it quotes
calculation_method(c, score) ==
    LET adj == MethodAdjacent(c.sorted_scores, 1, score, None)
    IN  IF score \in DOMAIN c.score_rank_map_city
           /\ score \in DOMAIN c.score_rank_map_inner
        THEN [kind |-> "exact", higher |-> None, lower |-> None]
        ELSE IF Truthy(adj[1]) /\ Truthy(adj[2])
        THEN [kind |-> "interpolation", higher |-> adj[1], lower |-> adj[2]]
        ELSE [kind |-> "boundary", higher |-> None, lower |-> None]

\* ImprovedRankCalculator.calculate_rank on the constructed object c
calculate_rank(c, score) ==
    IF ~ScoreInRange(score)
    THEN [status |-> "error", error |-> "score_range", score |-> score,
          year |-> c.year]
    ELSE IF ~PrecisionOk(score)
    THEN [status |-> "error", error |-> "score_precision", score |-> score,
          year |-> c.year]
    ELSE LET city_rank == Clamp(_linear_interpolate(c, score, "city"),
                                c.total_students_city)
             inner_rank == Clamp(_linear_interpolate(c, score, "inner"),
                                 c.total_students_inner)
         IN  [status |-> "ok", score |-> score, year |-> c.year,
              city_rank |-> city_rank,
              inner_rank |-> inner_rank,
              total_students_city |-> c.total_students_city,
              total_students_inner |-> c.total_students_inner,
              city_percentage |->
                  Percentage(city_rank, c.total_students_city),
              city_percentile |->
                  Percentile(city_rank, c.total_students_city),
              inner_percentage |->
                  Percentage(inner_rank, c.total_students_inner),
              inner_percentile |->
                  Percentile(inner_rank, c.total_students_inner),
              calculation_method |-> calculation_method(c, score)]

\* the dictionary calculate_enhanced_rank builds from calculate_rank's result
EnhancedResult(r) ==
    [rank |-> r.city_rank,
     inner_rank |-> r.inner_rank,
     total_students |-> r.total_students_city,
     total_students_inner |-> r.total_students_inner,
     percentage |-> r.city_percentile,
     inner_percentage |-> r.inner_percentile,
     calculation_method |-> r.calculation_method]

\* calculate_enhanced_rank's outcome: the inner result and what is returned
WithReturned(r) ==
    IF r.status = "ok"
    THEN [status |-> "ok", score |-> r.score, year |-> r.year,
          city_rank |-> r.city_rank,
          inner_rank |-> r.inner_rank,
          total_students_city |-> r.total_students_city,
          total_students_inner |-> r.total_students_inner,
          city_percentage |-> r.city_percentage,
          city_percentile |-> r.city_percentile,
          inner_percentage |-> r.inner_percentage,
          inner_percentile |-> r.inner_percentile,
          calculation_method |-> r.calculation_method,
          returned |-> EnhancedResult(r)]
    ELSE r

-----------------------------------------------------------------------------
(* Operations of the rank engine *)

\* ImprovedRankCalculator(year): the constructor
NewCalculator(year) ==
    LET c == _load_data(year)
    IN  /\ result = NoResult
        /\ calc' = (IF c.loaded THEN c ELSE NoCalc)
        /\ result' = (IF c.loaded THEN NoResult
                      ELSE [status |-> "error", error |-> c.error,
                            score |-> None, year |-> year])
        /\ asked' = (IF c.loaded THEN NoResult
                     ELSE [score |-> None, year |-> year])
        /\ UNCHANGED <<data, kept, outsideRank>>

\* calculator.calculate_rank(score) on the object built last
CalculateRank(score) ==
    /\ result = NoResult
    /\ calc.loaded
    /\ result' = calculate_rank(calc, score)
    /\ asked' = [score |-> score, year |-> calc.year]
    /\ UNCHANGED <<data, calc, kept, outsideRank>>

CalculatorForReused(year) == IF calc.loaded THEN calc ELSE _load_data(year)

\* calculator = ImprovedRankCalculator(year): a new object on every call
CalculatorFor(year) == _load_data(year)

\* calculate_enhanced_rank(score, year): builds a calculator and asks it
CalculateEnhancedRank(score, year) ==
    LET c == CalculatorFor(year)
    IN  /\ result = NoResult
        /\ calc' = (IF c.loaded THEN c ELSE NoCalc)
        /\ result' = (IF c.loaded THEN WithReturned(calculate_rank(c, score))
                      ELSE [status |-> "error", error |-> c.error,
                            score |-> score, year |-> year])
        /\ asked' = [score |-> score, year |-> year]
        /\ UNCHANGED <<data, kept, outsideRank>>

\* ImprovedRankCalculator.get_interpolation_details: the dictionary it
\* returns (the keys of an interpolation are None for the other methods)
get_interpolation_details(c, score, rank_type) ==
    LET score_rank_map == IF rank_type = "city" THEN c.score_rank_map_city
                          ELSE c.score_rank_map_inner
        known == DOMAIN score_rank_map
        adj == MethodAdjacent(c.sorted_scores, 1, score, None)
        higher == adj[1]
        lower == adj[2]
        blank == [status |-> "details", score |-> score, year |-> c.year,
                  rank_type |-> rank_type, exact_match |-> score \in known,
                  rank |-> None, method |-> "boundary",
                  higher_score |-> None, lower_score |-> None,
                  higher_rank |-> None, lower_rank |-> None]
    IN  IF score \in known
        THEN [blank EXCEPT !.rank = score_rank_map[score], !.method = "exact"]
        ELSE IF Truthy(higher) /\ Truthy(lower)
                /\ higher \in known /\ lower \in known
        THEN [blank EXCEPT !.method = "interpolation",
                           !.higher_score = higher,
                           !.lower_score = lower,
                           !.higher_rank = score_rank_map[higher],
                           !.lower_rank = score_rank_map[lower]]
        ELSE blank

\* calculator.get_interpolation_details(score, rank_type) on the object
\* built last
GetInterpolationDetails(score, rank_type) ==
    /\ result = NoResult
    /\ calc.loaded
    /\ result' = get_interpolation_details(calc, score, rank_type)
    /\ asked' = [score |-> score, year |-> calc.year]
    /\ UNCHANGED <<data, calc, kept, outsideRank>>

\* the caller takes the outcome of its call; the next call can start
ReturnRank ==
    /\ result # NoResult
    /\ result' = NoResult
    /\ asked' = NoResult
    /\ UNCHANGED <<data, calc, kept, outsideRank>>

-----------------------------------------------------------------------------
(* Rank service and its data access object: backend/service.py, dao.py *)

\* number of score levels of the score_records table of one year
NumDbLevels == 3
\* largest cumulative count stored in score_records
MaxDbCount == 3

\* the years that have rows in score_records
DbYears == {KnownYear - 1, KnownYear}

\* the scores of the rows, highest first: 700, 699 and 697 points, then
\* one point less for every further level
DbPoints(i) == IF i <= 2 THEN 701 - i ELSE 700 - i
DbScores == {DbPoints(i) * Unit : i \in 1..NumDbLevels}

\* ScoreRecord(year, score, inner_six)
DbRecord(year, score, inner_six) ==
    [year |-> year, score |-> score, inner_six |-> inner_six]

\* the rows of one year ordered by score DESC: cumulative counts that do
\* not decrease as the score goes down; rows with count 0 are allowed
DbTables(year) ==
    {[i \in 1..NumDbLevels |-> DbRecord(year, DbPoints(i) * Unit, c[i])] :
        c \in {d \in [1..NumDbLevels -> 0..MaxDbCount] :
                  \A i \in 1..(NumDbLevels - 1) : d[i] <= d[i + 1]}}

\* ScoreDAO._cache = {} with its two kinds of key, records_<year> and
\* total_<year>
NoCache == [records |-> <<>>, total |-> <<>>]

\* SELECT ... FROM score_records WHERE year = ? ORDER BY score DESC
RowsOf(year) == IF year \in DOMAIN db THEN db[year] ELSE <<>>

\* ScoreDAO.get_score_records: the returned list and the cache afterwards
get_score_records(c, year) ==
    IF year \in DOMAIN c.records
    THEN [records |-> c.records[year], cache |-> c]
    ELSE LET records == SelectSeq(RowsOf(year), LAMBDA r : r.inner_six > 0)
         IN  [records |-> records,
              cache |-> [c EXCEPT !.records = (year :> records) @@ @]]

\* the None returned where a ScoreRecord is expected
NoRecord == [year |-> None, score |-> None, inner_six |-> None]

\* ScoreDAO.get_score_record: the row of the score, or None
get_score_record(year, score) ==
    LET found == SelectSeq(RowsOf(year), LAMBDA r : r.score = score)
    IN  IF found = <<>> THEN NoRecord ELSE found[1]

\* ScoreDAO.get_total_students: MAX(inner_six), 0 without rows, and the
\* cache afterwards
get_total_students(c, year) ==
    IF year \in DOMAIN c.total
    THEN [total |-> c.total[year], cache |-> c]
    ELSE LET rows == RowsOf(year)
             total == IF rows = <<>> THEN 0
                      ELSE SetMax({rows[k].inner_six : k \in DOMAIN rows})
         IN  [total |-> total,
              cache |-> [c EXCEPT !.total = (year :> total) @@ @]]

\* int(score) of a score that is not negative
IntPart(score) == (score \div Unit) * Unit

\* ScoreDAO.get_segment_count
get_segment_count(year, score) ==
    LET current_record == get_score_record(year, IntPart(score))
        next_record == get_score_record(year, IntPart(score) + Unit)
        current_count == IF current_record # NoRecord
                         THEN current_record.inner_six ELSE 0
        next_count == IF next_record # NoRecord
                      THEN next_record.inner_six ELSE 0
    IN  Max(0, current_count - next_count)

\* scores whose product with 100 is not the exact integer in IEEE-754
\* double arithmetic although they have two decimals: 0.29 * 100 is
\* 28.999999999999996
InexactTimes100 == {290}

\* validate_score: the range test, then round(score * 100) == score * 100
validate_score(score) ==
    /\ MinScore * Unit <= score
    /\ score <= MaxScore * Unit
    /\ score % 10 = 0
    /\ score \notin InexactTimes100

\* the smallest / largest index of a list of records whose score is at
\* least / at most x (records are ordered by score DESC)
LastAtLeast(records, x) ==
    SetMax({k \in DOMAIN records : records[k].score >= x})
FirstAtMost(records, x) ==
    LET below == {k \in DOMAIN records : records[k].score <= x}
    IN  CHOOSE k \in below : \A j \in below : k <= j

\* interp1d(scores[::-1], cumulative[::-1], kind='linear',
\* bounds_error=False, fill_value=(cumulative[-1], cumulative[0])) at x,
\* as the exact quotient <<numerator, denominator>>
InterpolatorAt(records, x) ==
    IF x < records[Len(records)].score
    THEN <<records[Len(records)].inner_six, 1>>
    ELSE IF x > records[1].score
    THEN <<records[1].inner_six, 1>>
    ELSE LET hi == records[LastAtLeast(records, x)]
             lo == records[FirstAtMost(records, x)]
         IN  IF hi.score = lo.score THEN <<hi.inner_six, 1>>
             ELSE <<hi.inner_six * (hi.score - lo.score)
                        + (hi.score - x) * (lo.inner_six - hi.inner_six),
                    hi.score - lo.score>>

\* int(np.round(interpolator(score)))
RoundedInterpolation(records, x) ==
    LET q == InterpolatorAt(records, x)
    IN  RoundHalfEven(q[1], q[2])

\* the key of the dictionary _interpolators
InterpolatorKey(year) == year

\* RankCalculationService._get_interpolator: the interpolator (the records
\* it was built from), or the error, and both caches afterwards
_get_interpolator(c, ips, year) ==
    LET got == get_score_records(c, year)
    IN  IF InterpolatorKey(year) \in DOMAIN ips
        THEN [status |-> "ok", interpolator |-> ips[InterpolatorKey(year)],
              cache |-> c, interpolators |-> ips]
        ELSE IF got.records = <<>>
        THEN [status |-> "error", error |-> "no_year_data",
              cache |-> got.cache, interpolators |-> ips]
        ELSE [status |-> "ok", interpolator |-> got.records,
              cache |-> got.cache,
              interpolators |-> (InterpolatorKey(year) :> got.records) @@ ips]

\* RankCalculationService._generate_analysis: the level named in the text
\* (the seven levels of the source, in English)
_generate_analysis(rank) ==
    IF rank <= 100 THEN "top"
    ELSE IF rank <= 500 THEN "very_excellent"
    ELSE IF rank <= 1500 THEN "excellent"
    ELSE IF rank <= 3000 THEN "good"
    ELSE IF rank <= 6000 THEN "upper_middle"
    ELSE IF rank <= 10000 THEN "middle"
    ELSE "ordinary"

\* the RankResult built from a rank and its method
RankResult(score, year, raw_rank, total_students, method) ==
    LET rank == Clamp(raw_rank, total_students)
    IN  [status |-> "ok", score |-> score, year |-> year,
         rank |-> rank,
         total_students |-> total_students,
         percentage |-> Percentage(rank, total_students),
         percentile |-> Percentile(rank, total_students),
         calculation_method |-> method,
         analysis |-> _generate_analysis(rank),
         segment_count |-> get_segment_count(year, score)]

\* RankCalculationService.calculate_rank: the outcome and both caches
\* afterwards
service_calculate_rank(score, year) ==
    LET tot == get_total_students(cache, year)
        record == get_score_record(year, score)
        ip == _get_interpolator(tot.cache, interpolators, year)
        whole == score = IntPart(score)
    IN  IF ~validate_score(score)
        THEN [outcome |-> [status |-> "error", error |-> "invalid_score",
                           score |-> score, year |-> year],
              cache |-> cache, interpolators |-> interpolators]
        ELSE IF tot.total = 0
        THEN [outcome |-> [status |-> "error", error |-> "no_year_data",
                           score |-> score, year |-> year],
              cache |-> tot.cache, interpolators |-> interpolators]
        ELSE IF whole /\ record # NoRecord
        THEN [outcome |-> RankResult(score, year, record.inner_six,
                                     tot.total, "exact"),
              cache |-> tot.cache, interpolators |-> interpolators]
        ELSE IF ip.status = "error"
        THEN [outcome |-> [status |-> "error", error |-> ip.error,
                           score |-> score, year |-> year],
              cache |-> ip.cache, interpolators |-> ip.interpolators]
        ELSE [outcome |-> RankResult(score, year,
                              RoundedInterpolation(ip.interpolator, score),
                              tot.total,
                              IF whole THEN "interpolated_missing_score"
                              ELSE "linear_interpolation"),
              cache |-> ip.cache, interpolators |-> ip.interpolators]

\* rank_service.calculate_rank(score, year)
ServiceCalculateRank(score, year) ==
    LET r == service_calculate_rank(score, year)
    IN  /\ svc = NoResult
        /\ svc' = r.outcome
        /\ cache' = r.cache
        /\ interpolators' = r.interpolators
        /\ asked' = [score |-> score, year |-> year]
        /\ UNCHANGED <<db, kept, outsideService>>

\* the caller takes the outcome of its call; the next call can start
ReturnService ==
    /\ svc # NoResult
    /\ svc' = NoResult
    /\ asked' = NoResult
    /\ UNCHANGED <<db, cache, interpolators, kept, outsideService>>

-----------------------------------------------------------------------------
(* School recommender: backend/school_recommender.py *)

\* number of institutions in the admission table
NumSchools == 3
\* largest number of schools asked for in one tier
MaxSchemeCount == 2

\* the year schools_admission_<year>.py exists for
AdmissionYear == 2024
RecYears == {AdmissionYear, UnknownYear}

\* admission ranks found in the table; 0 stands for a missing or zero
\* figure.  Against a candidate rank of 20 the others are the ratios
\* 0.65 0.70 0.75 0.90 0.95 1.10 1.15 1.20 1.40 1.60 1.65
AdmissionRanks == {0, 13, 14, 15, 18, 19, 22, 23, 24, 28, 32, 33}

\* candidate ranks and schemes (reach, match, safety) a caller passes
CandidateRanks == {0, 20}
Schemes ==
    {<<a, b, c>> : a \in 1..MaxSchemeCount, b \in 1..MaxSchemeCount,
                   c \in 1..MaxSchemeCount}
    \cup {<<0, 1, 1>>, <<1, 0, 1>>, <<1, 1, 0>>}

\* a row of ADMISSION_DATA_<year>: the school and its admission rank
School(i, r) == [name |-> i, key_rank |-> r]

\* every table the admission module can hold: the empty list, or
\* NumSchools distinct schools in any order of admission rank
AdmissionTables ==
    {<<>>} \cup
    {[i \in 1..NumSchools |-> School(i, f[i])] :
        f \in [1..NumSchools -> AdmissionRanks]}

_load_admission_data_or_empty(year) ==
    [loaded |-> TRUE,
     admission_data |-> IF year = AdmissionYear THEN admission ELSE <<>>]

\* _load_admission_data: the list of the year's module, or the exception
\* of importing a module that does not exist
_load_admission_data(year) ==
    IF year = AdmissionYear
    THEN [loaded |-> TRUE, admission_data |-> admission]
    ELSE [loaded |-> FALSE, error |-> "ModuleNotFoundError"]

FilterRankedImputed(admission_data) ==
    LET known == {admission_data[k].key_rank : k \in DOMAIN admission_data} \ {0}
    IN  IF known = {} THEN <<>>
        ELSE [k \in DOMAIN admission_data |->
                 IF admission_data[k].key_rank = 0
                 THEN [admission_data[k] EXCEPT !.key_rank = SetMax(known)]
                 ELSE admission_data[k]]

\* [s for s in admission_data if s.get(key_rank, 0)]
FilterRanked(admission_data) ==
    SelectSeq(admission_data, LAMBDA s : s.key_rank # 0)

\* list.sort(key=...) is stable: insert each school after those that do
\* not rank behind it
RECURSIVE InsertByRank(_, _)
InsertByRank(sorted, s) ==
    IF sorted = <<>> THEN <<s>>
    ELSE IF sorted[Len(sorted)].key_rank <= s.key_rank
    THEN Append(sorted, s)
    ELSE Append(InsertByRank(SubSeq(sorted, 1, Len(sorted) - 1), s),
                sorted[Len(sorted)])

RECURSIVE SortByRank(_)
SortByRank(schools) ==
    IF schools = <<>> THEN <<>>
    ELSE InsertByRank(SortByRank(SubSeq(schools, 1, Len(schools) - 1)),
                      schools[Len(schools)])

\* lo <= sch_rank / rank <= hi and lo < sch_rank / rank <= hi, with the
\* limits given in hundredths
RatioWithin(sch_rank, rank, lo, hi) ==
    lo * rank <= 100 * sch_rank /\ 100 * sch_rank <= hi * rank
RatioAbove(sch_rank, rank, lo, hi) ==
    lo * rank < 100 * sch_rank /\ 100 * sch_rank <= hi * rank

InAttackExclusive(sch_rank, rank) == RatioAbove(sch_rank, rank, 75, 95)

\* the windows of the first pass
InAttack(sch_rank, rank) == RatioWithin(sch_rank, rank, 75, 95)
InStable(sch_rank, rank) == RatioAbove(sch_rank, rank, 95, 115)
InSafe(sch_rank, rank) == RatioAbove(sch_rank, rank, 115, 140)

InAttackWideExclusive(sch_rank, rank) == RatioAbove(sch_rank, rank, 70, 95)

\* the widened windows of _fill_intelligently
InAttackWide(sch_rank, rank) == RatioWithin(sch_rank, rank, 70, 95)
InStableWide(sch_rank, rank) == RatioWithin(sch_rank, rank, 90, 120)

InSafeWideNoCeiling(sch_rank, rank) == 110 * rank <= 100 * sch_rank

InSafeWide(sch_rank, rank) == RatioWithin(sch_rank, rank, 110, 160)

\* whether a bucket still takes a school in the first pass
HasRoom(bucket, n) == Len(bucket) < n

\* the loop over the sorted schools, from school i on, with its early exit
RECURSIVE FirstPass(_, _, _, _, _)
FirstPass(schools, i, rank, scheme, b) ==
    IF i > Len(schools) THEN b
    ELSE LET sch == schools[i]
             nb == IF InAttack(sch.key_rank, rank) /\ HasRoom(b.attack, scheme[1])
                   THEN [b EXCEPT !.attack = Append(@, sch)]
                   ELSE IF InStable(sch.key_rank, rank) /\ HasRoom(b.stable, scheme[2])
                   THEN [b EXCEPT !.stable = Append(@, sch)]
                   ELSE IF InSafe(sch.key_rank, rank) /\ HasRoom(b.safe, scheme[3])
                   THEN [b EXCEPT !.safe = Append(@, sch)]
                   ELSE b
         IN  IF /\ Len(nb.attack) = scheme[1]
                /\ Len(nb.stable) = scheme[2]
                /\ Len(nb.safe) = scheme[3]
             THEN nb
             ELSE FirstPass(schools, i + 1, rank, scheme, nb)

IsIn(s, bucket) == \E k \in DOMAIN bucket : bucket[k] = s

UnplacedInAttack(s, b) == ~IsIn(s, b.attack)

UnplacedInSafe(s, b) == ~IsIn(s, b.safe)

\* s not in attack and s not in stable and s not in safe
Unplaced(s, b) == ~IsIn(s, b.attack) /\ ~IsIn(s, b.stable) /\ ~IsIn(s, b.safe)

TakeAll(candidates, k) == candidates

\* candidates[:n - len(bucket)]
Take(candidates, k) == SubSeq(candidates, 1, Min(k, Len(candidates)))

\* bucket.extend(candidates[:n - len(bucket)])
Extend(bucket, candidates, n) == bucket \o Take(candidates, n - Len(bucket))

\* _fill_intelligently: reach, then match, then safety
_fill_intelligently(schools, rank, scheme, b) ==
    LET c1 == SelectSeq(schools, LAMBDA s :
                  Unplaced(s, b) /\ InAttackWide(s.key_rank, rank))
        b1 == IF Len(b.attack) < scheme[1]
              THEN [b EXCEPT !.attack = Extend(@, c1, scheme[1])]
              ELSE b
        c2 == SelectSeq(schools, LAMBDA s :
                  Unplaced(s, b1) /\ InStableWide(s.key_rank, rank))
        b2 == IF Len(b1.stable) < scheme[2]
              THEN [b1 EXCEPT !.stable = Extend(@, c2, scheme[2])]
              ELSE b1
        c3 == SelectSeq(schools, LAMBDA s :
                  Unplaced(s, b2) /\ InSafeWide(s.key_rank, rank))
        b3 == IF Len(b2.safe) < scheme[3]
              THEN [b2 EXCEPT !.safe = Extend(@, c3, scheme[3])]
              ELSE b2
    IN  b3

EmptyBuckets == [attack |-> <<>>, stable |-> <<>>, safe |-> <<>>]

InvalidSchemeFirstOnly(scheme) == scheme[1] <= 0

\* any(n <= 0 for n in scheme)
InvalidScheme(scheme) == \E k \in 1..3 : scheme[k] <= 0

\* recommend_schools_by_rank: the returned buckets, with the buckets as
\* they stood when the first pass ended, or the exception raised
recommend_schools_by_rank(rank, year, scheme) ==
    LET loadres == _load_admission_data(year)
        schools == SortByRank(FilterRanked(loadres.admission_data))
        first == FirstPass(schools, 1, rank, scheme, EmptyBuckets)
        final == _fill_intelligently(schools, rank, scheme, first)
    IN  IF rank <= 0
        THEN [status |-> "error", error |-> "rank", rank |-> rank,
              year |-> year, scheme |-> scheme]
        ELSE IF InvalidScheme(scheme)
        THEN [status |-> "error", error |-> "scheme", rank |-> rank,
              year |-> year, scheme |-> scheme]
        ELSE IF ~loadres.loaded
        THEN [status |-> "error", error |-> loadres.error, rank |-> rank,
              year |-> year, scheme |-> scheme]
        ELSE [status |-> "ok", rank |-> rank, year |-> year,
              scheme |-> scheme, schools |-> schools,
              first |-> first,
              attack |-> final.attack, stable |-> final.stable,
              safe |-> final.safe]

\* a caller asks for recommendations
Recommend(rank, year, scheme) ==
    /\ rec = NoResult
    /\ rec' = recommend_schools_by_rank(rank, year, scheme)
    /\ UNCHANGED <<admission, outsideRecommend>>

\* the caller takes the outcome of its call; the next call can start
ReturnRecommend ==
    /\ rec # NoResult
    /\ rec' = NoResult
    /\ UNCHANGED <<admission, outsideRecommend>>

-----------------------------------------------------------------------------
(* Request logger: backend/request_logger.py *)

\* number of threads that call the one request_logger
NumLoggers == 2
\* number of log_request calls of one run
MaxLogCalls == 3
\* the stored list keeps the last 1000 entries
MaxRequests == 1000
\* api_key[:10], len(api_key) > 10
KeyIdLength == 10

\* {"requests": [], "key_stats": {}}
EmptyLog == [requests |-> <<>>, key_stats |-> <<>>]

\* API keys are strings, modelled as sequences of characters; the missing
\* header (None) and the empty string, both false in a test, are NoKey
NoKey == <<>>
TenKey == [i \in 1..KeyIdLength |-> "a"]
LongKeyA == TenKey \o <<"x">>
LongKeyB == TenKey \o <<"y">>
LogKeys == {NoKey, TenKey, LongKeyA, LongKeyB}
LogEndpoints == {"/rank", "/recommend"}
LogStatusCodes == {200, 500}

\* the arguments of one log_request call
LogCall(endpoint, api_key, status_code) ==
    [endpoint |-> endpoint, api_key |-> api_key, status_code |-> status_code]
LogCalls ==
    {LogCall(e, k, s) : e \in LogEndpoints, k \in LogKeys, s \in LogStatusCodes}

\* api_key[:10] + "..." if len(api_key) > 10 else api_key
KeyStatId(api_key) ==
    IF Len(api_key) > KeyIdLength
    THEN SubSeq(api_key, 1, KeyIdLength) \o <<".", ".", ".">>
    ELSE api_key

\* datetime.now(): a reading later than the newest stored entry
Now(file_data) ==
    IF file_data.requests = <<>> THEN 1
    ELSE file_data.requests[Len(file_data.requests)].timestamp + 1

\* the dictionary request_log
request_log(call, now) ==
    [timestamp |-> now, endpoint |-> call.endpoint,
     api_key |-> KeyStatId(call.api_key), status_code |-> call.status_code]

KeepAll(requests) == requests

\* if len(data["requests"]) > 1000: data["requests"][-1000:]
KeepLast(requests) ==
    IF Len(requests) > MaxRequests
    THEN SubSeq(requests, Len(requests) - MaxRequests + 1, Len(requests))
    ELSE requests

\* the statistics of a key seen for the first time
NewKeyStat ==
    [total_requests |-> 0, successful_requests |-> 0,
     failed_requests |-> 0, endpoints |-> <<>>]

\* the update of data["key_stats"], skipped without a key
UpdateKeyStats(key_stats, call) ==
    IF call.api_key = NoKey THEN key_stats
    ELSE LET key_stat_id == KeyStatId(call.api_key)
             stats == IF key_stat_id \in DOMAIN key_stats
                      THEN key_stats[key_stat_id] ELSE NewKeyStat
             before == IF call.endpoint \in DOMAIN stats.endpoints
                       THEN stats.endpoints[call.endpoint] ELSE 0
             counted ==
                 [stats EXCEPT
                     !.total_requests = @ + 1,
                     !.successful_requests =
                         IF call.status_code < 400 THEN @ + 1 ELSE @,
                     !.failed_requests =
                         IF call.status_code < 400 THEN @ ELSE @ + 1,
                     !.endpoints = (call.endpoint :> before + 1) @@ @]
         IN  (key_stat_id :> counted) @@ key_stats

\* the body of log_request between reading the file and writing it back
log_request(file_data, call, now) ==
    [requests |-> KeepLast(Append(file_data.requests, request_log(call, now))),
     key_stats |-> UpdateKeyStats(file_data.key_stats, call)]

\* threading.Lock(): the thread that holds it, or nobody
NoHolder == 0

CanAcquireAlways(holder) == TRUE

\* with self.lock: blocks while another thread holds the lock
CanAcquire(holder) == holder = NoHolder

\* a thread outside log_request
IdleLogger == [pc |-> "idle", call |-> NoResult, data |-> EmptyLog]

\* the calls that entered log_request and have not written yet
InProgress == Cardinality({t \in DOMAIN loggers : loggers[t].pc # "idle"})

\* request_logger.log_request(...) is entered
StartLog(t, call) ==
    /\ loggers[t].pc = "idle"
    /\ loggers' = [loggers EXCEPT ![t] = [pc |-> "acquire", call |-> call,
                                          data |-> EmptyLog]]
    /\ UNCHANGED <<logfile, lock, made, http, outsideLogger>>

\* with self.lock
Acquire(t) ==
    /\ loggers[t].pc = "acquire"
    /\ CanAcquire(lock)
    /\ lock' = t
    /\ loggers' = [loggers EXCEPT ![t].pc = "read"]
    /\ UNCHANGED <<logfile, made, http, outsideLogger>>

\* data = json.load(f)
ReadLog(t) ==
    /\ loggers[t].pc = "read"
    /\ loggers' = [loggers EXCEPT ![t].pc = "write", ![t].data = logfile]
    /\ UNCHANGED <<logfile, lock, made, http, outsideLogger>>

\* the entry is built and appended, the statistics are updated, the file
\* is written back and the lock is released
WriteLog(t) ==
    LET now == Now(logfile)
    IN  /\ loggers[t].pc = "write"
        /\ logfile' = log_request(loggers[t].data, loggers[t].call, now)
        /\ made' = Append(made, [timestamp |-> now, call |-> loggers[t].call])
        /\ lock' = NoHolder
        /\ loggers' = [loggers EXCEPT ![t] = IdleLogger]
        /\ UNCHANGED <<http, outsideLogger>>

\* a component no operation has touched
LoggerIdle ==
    /\ logfile = EmptyLog
    /\ lock = NoHolder
    /\ loggers = <<>>
    /\ made = <<>>
    /\ http = NoResult

RankIdle == data = <<>> /\ calc = NoCalc /\ result = NoResult
RecommendIdle == admission = <<>> /\ rec = NoResult
AnalysisIdle == analysis = NoResult /\ seen = NoResult
ServiceIdle ==
    /\ db = <<>>
    /\ cache = NoCache
    /\ interpolators = <<>>
    /\ svc = NoResult
    /\ loads = 0
    /\ kept = NoResult
    /\ asked = NoResult
    /\ threads = <<>>

InitRecommend ==
    /\ admission \in AdmissionTables
    /\ rec = NoResult
    /\ RankIdle
    /\ AnalysisIdle
    /\ LoggerIdle
    /\ ServiceIdle

NextRecommend ==
    \/ \E rank \in CandidateRanks, year \in RecYears, scheme \in Schemes :
           Recommend(rank, year, scheme)
    \/ ReturnRecommend

SpecRecommend == InitRecommend /\ [][NextRecommend]_vars

-----------------------------------------------------------------------------
(* Specifications *)

InitRank ==
    /\ data \in {[y \in {KnownYear} |-> t] : t \in YearTables}
    /\ calc = NoCalc
    /\ result = NoResult
    /\ RecommendIdle
    /\ AnalysisIdle
    /\ LoggerIdle
    /\ ServiceIdle

NextRank ==
    \/ \E year \in Years : NewCalculator(year)
    \/ \E score \in QueryScores : CalculateRank(score)
    \/ \E score \in QueryScores, year \in Years :
           CalculateEnhancedRank(score, year)
    \/ ReturnRank

SpecRank == InitRank /\ [][NextRank]_vars

-----------------------------------------------------------------------------
(* The rank engine on tables where the city population has gaps *)

\* largest cumulative count of the tables with gaps
MaxSparseCount == 3

\* every level carries one student of the six districts, and has either no
\* city data or a city count up to MaxSparseCount; some level has city data
SparseTables ==
    {t \in {[i \in 1..NumLevels |-> ScoreRecord(i, c[i], 1)] :
                c \in [1..NumLevels -> 0..MaxSparseCount]} :
        /\ Cumulative(t)
        /\ \E i \in DOMAIN t : t[i].total_city > 0}

InitSparse ==
    /\ data \in {[y \in {KnownYear} |-> t] : t \in SparseTables}
    /\ calc = NoCalc
    /\ result = NoResult
    /\ RecommendIdle
    /\ AnalysisIdle
    /\ LoggerIdle
    /\ ServiceIdle

SpecSparse == InitSparse /\ [][NextRank]_vars

\* the same tables, with the debugging query of the calculator
NextDetails ==
    \/ NextRank
    \/ \E score \in QueryScores, rank_type \in {"city", "inner"} :
           GetInterpolationDetails(score, rank_type)

SpecDetails == InitSparse /\ [][NextDetails]_vars

-----------------------------------------------------------------------------
(* Rank analyzer: get_detailed_analysis of backend/rank_calculator.py *)

\* number of steps of the grid of percentages given to the analyzer
NumPercentSteps == 100

\* the values of result['percentage'], in hundredths of a percent: a grid
\* over [0, 100] and the two neighbours of every threshold
AnalysisPercentages ==
    {(k * 100 * 100) \div NumPercentSteps : k \in 0..NumPercentSteps}
        \cup {t * 100 + d : t \in {95, 85, 70, 50}, d \in {0 - 1, 1}}

get_detailed_analysis_exclusive(percentage) ==
    IF percentage > 95 * 100 THEN "top"
    ELSE IF percentage >= 85 * 100 THEN "excellent"
    ELSE IF percentage >= 70 * 100 THEN "good"
    ELSE IF percentage >= 50 * 100 THEN "average"
    ELSE "to_improve"

\* get_detailed_analysis: the level named in the returned text (the five
\* levels of the source, in English); the advice sentence is fixed by it
get_detailed_analysis(percentage) ==
    IF percentage >= 95 * 100 THEN "top"
    ELSE IF percentage >= 85 * 100 THEN "excellent"
    ELSE IF percentage >= 70 * 100 THEN "good"
    ELSE IF percentage >= 50 * 100 THEN "average"
    ELSE "to_improve"

\* get_detailed_analysis(result) on a result whose 'percentage' is given
DetailedAnalysis(percentage) ==
    /\ analysis = NoResult
    /\ analysis' = [status |-> "ok", percentage |-> percentage,
                    level |-> get_detailed_analysis(percentage)]
    /\ UNCHANGED <<seen, outsideAnalysis>>

\* the caller takes the text and keeps it
ReturnAnalysis ==
    /\ analysis # NoResult
    /\ seen' = analysis
    /\ analysis' = NoResult
    /\ UNCHANGED outsideAnalysis

InitAnalysis ==
    /\ AnalysisIdle
    /\ LoggerIdle
    /\ RankIdle
    /\ RecommendIdle
    /\ ServiceIdle

NextAnalysis ==
    \/ \E percentage \in AnalysisPercentages : DetailedAnalysis(percentage)
    \/ ReturnAnalysis

SpecAnalysis == InitAnalysis /\ [][NextAnalysis]_vars

-----------------------------------------------------------------------------
(* One caller repeating queries on the engine and on the service *)

\* the score tables of the service: a year whose counts are 1, 2, ... by
\* falling score, and a year with any counts that leave no or at least two
\* rows with students
PreviousYearTable ==
    [i \in 1..NumDbLevels |->
        DbRecord(KnownYear - 1, DbPoints(i) * Unit, Min(i, MaxDbCount))]
KnownYearTables ==
    {t \in DbTables(KnownYear) :
        Cardinality({i \in DOMAIN t : t[i].inner_six > 0}) # 1}

\* the tables of the engine: every level counts MaxCount students in the
\* city and in the six districts, the top level any number in the districts
RepeatTables ==
    {t \in YearTables :
        /\ \A i \in DOMAIN t : t[i].total_city = MaxCount
        /\ t[1].inner_six > 0
        /\ \A i \in DOMAIN t : i > 1 => t[i].inner_six = MaxCount}

\* the queries of the caller
RepeatEngineScores == {LevelPoints(1) * Unit, LevelPoints(1) * Unit - 50 * Unit,
                       0 - 10}
RepeatServiceScores == {DbPoints(2) * Unit, DbPoints(2) * Unit - Unit,
                        DbPoints(2) * Unit - Unit \div 2, 290,
                        DbPoints(2) * Unit - 99 * Unit}
RepeatYears == DbYears \cup {UnknownYear}
\* the scores whose outcome the caller may keep for a later comparison
ProbeScores == {LevelPoints(1) * Unit - 50 * Unit, DbPoints(2) * Unit - Unit,
                DbPoints(2) * Unit - Unit \div 2}

\* the caller takes the outcome of an engine query and keeps it
KeepRank ==
    /\ result # NoResult
    /\ kept = NoResult
    /\ asked.score \in ProbeScores
    /\ kept' = [call |-> "calculate_enhanced_rank", asked |-> asked,
                outcome |-> result]
    /\ result' = NoResult
    /\ asked' = NoResult
    /\ UNCHANGED <<data, calc, outsideRank>>

\* the caller takes the outcome of a service query and keeps it
KeepService ==
    /\ svc # NoResult
    /\ kept = NoResult
    /\ asked.score \in ProbeScores
    /\ kept' = [call |-> "service", asked |-> asked, outcome |-> svc]
    /\ svc' = NoResult
    /\ asked' = NoResult
    /\ UNCHANGED <<db, cache, interpolators, outsideService>>

InitRepeat ==
    /\ data \in {[y \in {KnownYear} |-> t] : t \in RepeatTables}
    /\ calc = NoCalc
    /\ result = NoResult
    /\ db \in {[y \in DbYears |->
                   IF y = KnownYear THEN t ELSE PreviousYearTable] :
                       t \in KnownYearTables}
    /\ cache = NoCache
    /\ interpolators = <<>>
    /\ svc = NoResult
    /\ loads = 0
    /\ kept = NoResult
    /\ asked = NoResult
    /\ threads = <<>>
    /\ RecommendIdle
    /\ AnalysisIdle
    /\ LoggerIdle

NextRepeat ==
    \/ \E score \in RepeatEngineScores, year \in Years :
           svc = NoResult /\ CalculateEnhancedRank(score, year)
    \/ \E score \in RepeatServiceScores, year \in RepeatYears :
           result = NoResult /\ ServiceCalculateRank(score, year)
    \/ ReturnRank
    \/ ReturnService
    \/ KeepRank
    \/ KeepService

SpecRepeat == InitRepeat /\ [][NextRepeat]_vars

-----------------------------------------------------------------------------
(* Concurrent callers of one year: the shared rank_service and score_dao, *)
(* and the calculator each call of calculate_enhanced_rank builds         *)

\* number of concurrent callers
NumCallers == 2
Callers == 1..NumCallers

\* the rows the query of get_score_records returns for the year
QueryRows(year) == SelectSeq(RowsOf(year), LAMBDA r : r.inner_six > 0)

\* a caller outside any call; idx is the next row of the comprehension,
\* records the caller's local list, stage the number of parts of its own
\* calculator that are built (maps, sorted_scores, totals)
IdleCaller == [pc |-> "idle", idx |-> 0, records |-> <<>>, stage |-> 0]

ReadyToPublishAnytime(idx, rows) == TRUE

\* the cache assignment of get_score_records runs after the comprehension
\* has gone through every row
ReadyToPublish(idx, rows) == idx > Len(rows)

\* rank_service.calculate_rank(score, KnownYear) is entered
StartService(t) ==
    /\ threads[t].pc = "idle"
    /\ threads' = [threads EXCEPT ![t].pc = "total"]
    /\ UNCHANGED <<cache, interpolators, outsideThreads>>

\* dao.get_total_students and the test total_students == 0
GetTotal(t) ==
    LET tot == get_total_students(cache, KnownYear)
    IN  /\ threads[t].pc = "total"
        /\ cache' = tot.cache
        /\ threads' = [threads EXCEPT ![t].pc =
                           IF tot.total = 0 THEN "failed"
                           ELSE "check_interpolator"]
        /\ UNCHANGED <<interpolators, outsideThreads>>

\* _get_interpolator: if year in self._interpolators
CheckInterpolator(t) ==
    /\ threads[t].pc = "check_interpolator"
    /\ threads' = [threads EXCEPT ![t] =
           IF KnownYear \in DOMAIN interpolators
           THEN [@ EXCEPT !.pc = "use_interpolator",
                          !.records = interpolators[KnownYear]]
           ELSE [@ EXCEPT !.pc = "check_cache"]]
    /\ UNCHANGED <<cache, interpolators, outsideThreads>>

\* get_score_records: the cache test, then the query; loads counts the
\* queries for the year's rows since the cache was last cleared
CheckCache(t) ==
    /\ threads[t].pc = "check_cache"
    /\ threads' = [threads EXCEPT ![t] =
           IF KnownYear \in DOMAIN cache.records
           THEN [@ EXCEPT !.pc = "have_records",
                          !.records = cache.records[KnownYear]]
           ELSE [@ EXCEPT !.pc = "fetch", !.idx = 1, !.records = <<>>]]
    /\ loads' = IF KnownYear \in DOMAIN cache.records THEN loads
                ELSE loads + 1
    /\ UNCHANGED <<cache, interpolators, outsideCallers>>

\* get_score_records: the comprehension turns one more row into a record
BuildRecords(t) ==
    /\ threads[t].pc = "fetch"
    /\ threads[t].idx <= Len(QueryRows(KnownYear))
    /\ threads' = [threads EXCEPT
           ![t].records = Append(@, QueryRows(KnownYear)[threads[t].idx]),
           ![t].idx = @ + 1]
    /\ UNCHANGED <<cache, interpolators, outsideThreads>>

\* get_score_records: self._cache[cache_key] = records
PublishRecords(t) ==
    /\ threads[t].pc = "fetch"
    /\ ReadyToPublish(threads[t].idx, QueryRows(KnownYear))
    /\ cache' = [cache EXCEPT
           !.records = (KnownYear :> threads[t].records) @@ @]
    /\ threads' = [threads EXCEPT ![t].pc = "have_records"]
    /\ UNCHANGED <<interpolators, outsideThreads>>

\* _get_interpolator: the test of the records, the arrays and interp1d
BuildInterpolator(t) ==
    /\ threads[t].pc = "have_records"
    /\ threads' = [threads EXCEPT ![t].pc =
           IF threads[t].records = <<>> THEN "failed" ELSE "store"]
    /\ UNCHANGED <<cache, interpolators, outsideThreads>>

\* _get_interpolator: self._interpolators[year] = interpolator
StoreInterpolator(t) ==
    /\ threads[t].pc = "store"
    /\ interpolators' = (KnownYear :> threads[t].records) @@ interpolators
    /\ threads' = [threads EXCEPT ![t].pc = "use_interpolator"]
    /\ UNCHANGED <<cache, outsideThreads>>

\* the interpolator is evaluated and calculate_rank returns
UseInterpolator(t) ==
    /\ threads[t].pc = "use_interpolator"
    /\ threads' = [threads EXCEPT ![t] = IdleCaller]
    /\ UNCHANGED <<cache, interpolators, outsideThreads>>

\* calculate_rank raises ValueError
FailService(t) ==
    /\ threads[t].pc = "failed"
    /\ threads' = [threads EXCEPT ![t] = IdleCaller]
    /\ UNCHANGED <<cache, interpolators, outsideThreads>>

\* calculate_enhanced_rank: ImprovedRankCalculator(year) creates the
\* object with empty maps and calls _load_data
StartEngine(t) ==
    /\ threads[t].pc = "idle"
    /\ threads' = [threads EXCEPT ![t].pc = "load_maps"]
    /\ UNCHANGED <<cache, interpolators, outsideThreads>>

\* _load_data: the loop over year_data fills the two maps
LoadMaps(t) ==
    /\ threads[t].pc = "load_maps"
    /\ threads' = [threads EXCEPT ![t].pc = "sort_scores", ![t].stage = 1]
    /\ UNCHANGED <<cache, interpolators, outsideThreads>>

\* _load_data: sorted_scores is made unique and sorted
SortScores(t) ==
    /\ threads[t].pc = "sort_scores"
    /\ threads' = [threads EXCEPT ![t].pc = "set_totals", ![t].stage = 2]
    /\ UNCHANGED <<cache, interpolators, outsideThreads>>

\* _load_data: the two totals; the constructor returns
SetTotals(t) ==
    /\ threads[t].pc = "set_totals"
    /\ threads' = [threads EXCEPT ![t].pc = "calculate", ![t].stage = 3]
    /\ UNCHANGED <<cache, interpolators, outsideThreads>>

\* calculator.calculate_rank(score) reads the object; the call returns
CalculateOnOwn(t) ==
    /\ threads[t].pc = "calculate"
    /\ threads' = [threads EXCEPT ![t] = IdleCaller]
    /\ UNCHANGED <<cache, interpolators, outsideThreads>>

\* rank_service.clear_cache() is entered
StartClear(t) ==
    /\ threads[t].pc = "idle"
    /\ threads' = [threads EXCEPT ![t].pc = "clear_interpolators"]
    /\ UNCHANGED <<cache, interpolators, outsideThreads>>

\* clear_cache of the service: self._interpolators.clear()
ClearInterpolators(t) ==
    /\ threads[t].pc = "clear_interpolators"
    /\ interpolators' = <<>>
    /\ threads' = [threads EXCEPT ![t].pc = "clear_dao"]
    /\ UNCHANGED <<cache, outsideThreads>>

\* clear_cache of the DAO: self._cache.clear(); both calls return
ClearDao(t) ==
    /\ threads[t].pc = "clear_dao"
    /\ cache' = NoCache
    /\ loads' = 0
    /\ threads' = [threads EXCEPT ![t] = IdleCaller]
    /\ UNCHANGED <<interpolators, outsideCallers>>

InitConcurrent ==
    /\ db \in {[y \in {KnownYear} |-> t] : t \in KnownYearTables}
    /\ cache = NoCache
    /\ interpolators = <<>>
    /\ svc = NoResult
    /\ loads = 0
    /\ kept = NoResult
    /\ asked = NoResult
    /\ threads = [t \in Callers |-> IdleCaller]
    /\ RankIdle
    /\ RecommendIdle
    /\ AnalysisIdle
    /\ LoggerIdle

NextConcurrent ==
    \E t \in Callers :
        \/ StartService(t)
        \/ GetTotal(t)
        \/ CheckInterpolator(t)
        \/ CheckCache(t)
        \/ BuildRecords(t)
        \/ PublishRecords(t)
        \/ BuildInterpolator(t)
        \/ StoreInterpolator(t)
        \/ UseInterpolator(t)
        \/ FailService(t)
        \/ StartEngine(t)
        \/ LoadMaps(t)
        \/ SortScores(t)
        \/ SetTotals(t)
        \/ CalculateOnOwn(t)

SpecConcurrent == InitConcurrent /\ [][NextConcurrent]_vars

\* the callers of the service, some of them clearing its caches
NextCache ==
    \E t \in Callers :
        \/ StartService(t)
        \/ GetTotal(t)
        \/ CheckInterpolator(t)
        \/ CheckCache(t)
        \/ BuildRecords(t)
        \/ PublishRecords(t)
        \/ BuildInterpolator(t)
        \/ StoreInterpolator(t)
        \/ UseInterpolator(t)
        \/ FailService(t)
        \/ StartClear(t)
        \/ ClearInterpolators(t)
        \/ ClearDao(t)

SpecCache == InitConcurrent /\ [][NextCache]_vars

-----------------------------------------------------------------------------
(* Properties of the rank engine *)

\* the outcome of a rank query that was answered with ranks
Answered == result.status = "ok"

\* the outcome of a query (a call that was given a score)
Queried == result.status # "none" /\ result.score # None

\* the records of the year the outcome is about
ResultData == get_data_by_year(result.year)

\* a valid score: inside [0, 800] with at most two decimals
ValidScore(s) == 0 <= s /\ s <= 800 * Unit /\ s % 10 = 0

\* the cumulative counts the year's records store for a population
StoredCity == {ResultData[i].total_city : i \in DOMAIN ResultData} \ {0}
StoredInner == {ResultData[i].inner_six : i \in DOMAIN ResultData} \ {0}

\* the scores that carry data for a population
ScoresCity ==
    {ResultData[i].score : i \in {j \in DOMAIN ResultData : ResultData[j].total_city > 0}}
ScoresInner ==
    {ResultData[i].score : i \in {j \in DOMAIN ResultData : ResultData[j].inner_six > 0}}

\* C1: when the queried score has a stored cumulative count for a population,
\* the rank returned for that population is exactly that stored count.
C1_ExactMatchReturnsStoredCount ==
    Answered =>
        \A i \in DOMAIN ResultData :
            ResultData[i].score = result.score =>
                /\ (ResultData[i].total_city > 0
                        => result.city_rank = ResultData[i].total_city)
                /\ (ResultData[i].inner_six > 0
                        => result.inner_rank = ResultData[i].inner_six)

\* an answered query for a stored score whose two counts differ and whose
\* city count is below the city total
C1_Witness ==
    /\ Answered
    /\ \E i \in DOMAIN ResultData :
           /\ ResultData[i].score = result.score
           /\ ResultData[i].total_city > 0
           /\ ResultData[i].inner_six > ResultData[i].total_city
           /\ ResultData[i].total_city < result.total_students_city
           /\ result.city_rank = ResultData[i].total_city
           /\ result.inner_rank = ResultData[i].inner_six

\* the clamped rank calculate_rank returns for a score
RankOf(score, rank_type) ==
    Clamp(_linear_interpolate(calc, score, rank_type),
          IF rank_type = "city" THEN calc.total_students_city
          ELSE calc.total_students_inner)

\* C2: monotonicity.  On a table whose cumulative counts never grow with
\* the score, a valid score higher than the queried one never gets a larger
\* rank, and a lower one never a smaller rank, in either population.
C2_RankMonotone ==
    (Answered /\ ValidScore(result.score) /\ Cumulative(ResultData)) =>
        \A s \in {q \in QueryScores : ValidScore(q)} :
            /\ (s > result.score =>
                    /\ RankOf(s, "city") <= result.city_rank
                    /\ RankOf(s, "inner") <= result.inner_rank)
            /\ (s < result.score =>
                    /\ RankOf(s, "city") >= result.city_rank
                    /\ RankOf(s, "inner") >= result.inner_rank)

\* C3: boundary ranks.  A valid score above every score that carries data
\* for a population gets rank 1 in it; a valid score below every such score
\* gets the population's total.
C3_BoundaryRanks ==
    (Answered /\ ValidScore(result.score)) =>
        /\ ((\A s \in ScoresCity : result.score > s) => result.city_rank = 1)
        /\ ((\A s \in ScoresInner : result.score > s) => result.inner_rank = 1)
        /\ ((\A s \in ScoresCity : result.score < s)
                => result.city_rank = SetMax(StoredCity))
        /\ ((\A s \in ScoresInner : result.score < s)
                => result.inner_rank = SetMax(StoredInner))

\* C4: every returned rank lies between 1 and the total of its population,
\* the largest cumulative count the year stores for it.
C4_RankWithinTotal ==
    Answered =>
        /\ 1 <= result.city_rank
        /\ result.city_rank <= SetMax(StoredCity)
        /\ 1 <= result.inner_rank
        /\ result.inner_rank <= SetMax(StoredInner)

\* an answered query that took the fallback of _linear_interpolate (both
\* bracketing scores without data for the city population) on a table that
\* stores several different city counts
C4_Witness ==
    /\ Answered
    /\ result.score \notin ScoresCity
    /\ \E h, l \in ScoresInner \ ScoresCity :
           /\ h > result.score /\ result.score > l
           /\ \A s \in ScoresCity : s > h \/ s < l
    /\ Cardinality(StoredCity) > 1
    /\ result.city_rank = SetMax(StoredCity)

\* C5: a query whose score is below 0 or above 800 returns no rank; on a
\* constructed calculator it is rejected with the score-range error.
C5_OutOfRangeRejected ==
    (Queried /\ (result.score < 0 \/ result.score > 800 * Unit)) =>
        /\ result.status = "error"
        /\ "city_rank" \notin DOMAIN result
        /\ "inner_rank" \notin DOMAIN result
        /\ (calc.loaded => result.error = "score_range")

\* a query above 800 rejected by a constructed calculator
C5_Witness ==
    /\ Queried
    /\ result.score > 800 * Unit
    /\ calc.loaded
    /\ result.status = "error"
    /\ result.error = "score_range"

\* C6: a query whose score is inside [0, 800] but has more than two decimal
\* digits is rejected by a constructed calculator with the precision error.
C6_ThreeDecimalsRejected ==
    (Queried /\ calc.loaded
        /\ 0 <= result.score /\ result.score <= 800 * Unit
        /\ result.score % 10 # 0) =>
        /\ result.status = "error"
        /\ result.error = "score_precision"

\* C7: a query of a year without any record, or of a year in which a
\* population has no positive cumulative count, fails: no calculator is
\* built and no rank is returned.
C7_NoDataFails ==
    (result.status # "none"
        /\ (ResultData = <<>> \/ StoredCity = {} \/ StoredInner = {})) =>
        /\ result.status = "error"
        /\ result.error \in {"no_year_data", "max_of_empty"}
        /\ (ResultData = <<>> <=> result.error = "no_year_data")
        /\ "city_rank" \notin DOMAIN result
        /\ "inner_rank" \notin DOMAIN result
        /\ ~calc.loaded

\* a query with a valid score that failed because the narrow population of
\* a year with records has no positive count
C7_Witness ==
    /\ Queried
    /\ ValidScore(result.score)
    /\ ResultData # <<>>
    /\ StoredCity # {}
    /\ StoredInner = {}
    /\ result.status = "error"

-----------------------------------------------------------------------------
(* Properties of the recommender *)

Recommended == rec.status = "ok"

\* the schools of the three buckets, one after the other
Placed(b) == b.attack \o b.stable \o b.safe

NoRepeat(seq) ==
    \A i, j \in DOMAIN seq : i # j => seq[i].name # seq[j].name

Ascending(seq) ==
    \A i, j \in DOMAIN seq : i < j => seq[i].key_rank <= seq[j].key_rank

\* C8: no institution appears twice among the three buckets, neither when
\* the first pass ends nor in the returned buckets.
C8_BucketsDisjoint ==
    Recommended =>
        /\ NoRepeat(Placed(rec.first))
        /\ NoRepeat(Placed(rec))

\* a recommendation in which the backfill added to the match bucket while
\* the reach bucket holds a school of the widened match window
C8_Witness ==
    /\ Recommended
    /\ Len(rec.stable) > Len(rec.first.stable)
    /\ \E k \in DOMAIN rec.attack :
           InStableWide(rec.attack[k].key_rank, rec.rank)

\* C9: each returned bucket is in ascending order of admission rank.
C9_BucketsAscending ==
    Recommended =>
        /\ Ascending(rec.attack)
        /\ Ascending(rec.stable)
        /\ Ascending(rec.safe)

\* C10: no bucket is longer than the count asked for it, neither when the
\* first pass ends nor in the returned buckets.
C10_BucketsWithinCounts ==
    Recommended =>
        /\ Len(rec.first.attack) <= rec.scheme[1]
        /\ Len(rec.first.stable) <= rec.scheme[2]
        /\ Len(rec.first.safe) <= rec.scheme[3]
        /\ Len(rec.attack) <= rec.scheme[1]
        /\ Len(rec.stable) <= rec.scheme[2]
        /\ Len(rec.safe) <= rec.scheme[3]

\* a recommendation in which the backfill filled the reach bucket up to
\* its count and left a school of the widened reach window unplaced
C10_Witness ==
    /\ Recommended
    /\ Len(rec.first.attack) < rec.scheme[1]
    /\ Len(rec.attack) = rec.scheme[1]
    /\ \E k \in DOMAIN rec.schools :
           /\ InAttackWide(rec.schools[k].key_rank, rec.rank)
           /\ ~IsIn(rec.schools[k], Placed(rec))

\* the call a recommendation outcome answers
RecCalled == rec.status # "none"

BucketFields == {"attack", "stable", "safe"}

\* C11: a call with rank <= 0 raises the rank error and returns no bucket,
\* a call with a scheme count <= 0 raises an error, and a call with a
\* positive rank and three positive counts raises neither of the two.
C11_InvalidArgumentsRaise ==
    RecCalled =>
        /\ (rec.rank <= 0 =>
                /\ rec.status = "error"
                /\ rec.error = "rank"
                /\ BucketFields \cap DOMAIN rec = {})
        /\ ((\E k \in 1..3 : rec.scheme[k] <= 0) =>
                /\ rec.status = "error"
                /\ rec.error \in {"rank", "scheme"}
                /\ (rec.rank > 0 => rec.error = "scheme")
                /\ BucketFields \cap DOMAIN rec = {})
        /\ ((rec.rank > 0 /\ \A k \in 1..3 : rec.scheme[k] > 0) =>
                (rec.status = "error" => rec.error \notin {"rank", "scheme"}))

\* a call with a positive rank whose safety count alone is 0, refused with
\* the scheme error
C11_Witness ==
    /\ RecCalled
    /\ rec.rank > 0
    /\ rec.scheme[1] > 0 /\ rec.scheme[2] > 0 /\ rec.scheme[3] <= 0
    /\ rec.status = "error"
    /\ rec.error = "scheme"

\* C12: with a valid rank and scheme, a year without admission module fails
\* with an error and no buckets, while the year of a module whose list is
\* empty returns three empty buckets; the two outcomes differ.
C12_UnknownYearVersusEmptyYear ==
    (RecCalled /\ rec.rank > 0 /\ \A k \in 1..3 : rec.scheme[k] > 0) =>
        /\ (rec.year # AdmissionYear =>
                /\ rec.status = "error"
                /\ BucketFields \cap DOMAIN rec = {})
        /\ ((rec.year = AdmissionYear /\ admission = <<>>) =>
                /\ rec.status = "ok"
                /\ rec.attack = <<>> /\ rec.stable = <<>> /\ rec.safe = <<>>)

\* a valid call on the year whose admission list is empty
C12_Witness ==
    /\ RecCalled
    /\ rec.rank > 0
    /\ rec.year = AdmissionYear
    /\ admission = <<>>
    /\ rec.status = "ok"

\* the names of the schools of a list
Names(seq) == {seq[k].name : k \in DOMAIN seq}

\* C13: a school whose admission rank is missing or zero in the table is in
\* none of the buckets, neither when the first pass ends nor on return.
C13_UnrankedNeverRecommended ==
    Recommended =>
        \A k \in DOMAIN admission :
            admission[k].key_rank = 0 =>
                /\ admission[k].name \notin Names(Placed(rec.first))
                /\ admission[k].name \notin Names(Placed(rec))

\* a recommendation from a table with an unranked school in which a bucket
\* was left short and the backfill placed a school
C13_Witness ==
    /\ Recommended
    /\ \E k \in DOMAIN admission : admission[k].key_rank = 0
    /\ Len(Placed(rec)) > Len(Placed(rec.first))
    /\ Len(rec.attack) < rec.scheme[1]

\* the outcome of calculate_enhanced_rank, as handed to its caller
Enhanced == Answered /\ "returned" \in DOMAIN result

\* p hundredths of a percent is n / total * 100 rounded to 2 decimals
IsShare(p, n, total) == 2 * Abs(p * total - n * 100 * 100) <= total

\* the four percentage fields of calculate_rank follow the two formulas
CalculateRankShares ==
    Answered =>
        /\ IsShare(result.city_percentage, result.city_rank,
                   result.total_students_city)
        /\ IsShare(result.inner_percentage, result.inner_rank,
                   result.total_students_inner)
        /\ IsShare(result.city_percentile,
                   result.total_students_city - result.city_rank + 1,
                   result.total_students_city)
        /\ IsShare(result.inner_percentile,
                   result.total_students_inner - result.inner_rank + 1,
                   result.total_students_inner)

\* C14 as stated: the fields of calculate_rank follow the two formulas, and
\* the fields percentage / inner_percentage of calculate_enhanced_rank
\* equal rank / total * 100.
C14_AsStated ==
    /\ CalculateRankShares
    /\ Enhanced =>
           /\ IsShare(result.returned.percentage, result.returned.rank,
                      result.returned.total_students)
           /\ IsShare(result.returned.inner_percentage,
                      result.returned.inner_rank,
                      result.returned.total_students_inner)

\* C14: for each population calculate_rank reports percentage =
\* rank / total * 100 and percentile = (total - rank + 1) / total * 100 of
\* the clamped rank, to 2 decimals; the fields percentage and
\* inner_percentage returned by calculate_enhanced_rank carry the
\* percentile (total - rank + 1) / total * 100, not rank / total * 100.
C14_EnhancedPercentageIsPercentile ==
    /\ CalculateRankShares
    /\ Enhanced =>
           /\ IsShare(result.returned.percentage,
                      result.returned.total_students - result.returned.rank + 1,
                      result.returned.total_students)
           /\ IsShare(result.returned.inner_percentage,
                      result.returned.total_students_inner
                          - result.returned.inner_rank + 1,
                      result.returned.total_students_inner)

\* an enhanced result of a candidate ranked first among several, whose
\* percentile and percentage differ
C14_Witness ==
    /\ Enhanced
    /\ result.returned.total_students > 1
    /\ result.returned.rank = 1
    /\ result.returned.percentage = 100 * 100
    /\ result.city_percentage < 100 * 100

-----------------------------------------------------------------------------
(* Properties of interpolation *)

Populations == {"city", "inner"}

SetMin(S) == CHOOSE x \in S : \A y \in S : x <= y

\* the scores that carry data for a population, and those above and below
\* a score
Known(p) == IF p = "city" THEN ScoresCity ELSE ScoresInner
KnownAbove(p, x) == {s \in Known(p) : s > x}
KnownBelow(p, x) == {s \in Known(p) : s < x}

\* the cumulative count stored for a population at one of its scores
StoredAt(p, s) ==
    LET i == CHOOSE j \in DOMAIN ResultData : ResultData[j].score = s
    IN  IF p = "city" THEN ResultData[i].total_city
        ELSE ResultData[i].inner_six

\* the rank and the total returned for a population
ReturnedRank(p) ==
    IF p = "city" THEN result.city_rank ELSE result.inner_rank
ReturnedTotal(p) ==
    IF p = "city" THEN result.total_students_city
    ELSE result.total_students_inner

\* r is an integer nearest to rh + ((x - h) / (l - h)) * (rl - rh)
NearestToInterpolation(r, x, h, l, rh, rl) ==
    2 * Abs(r * (h - l) - (rh * (h - l) + (h - x) * (rl - rh))) <= h - l

\* the rank of a population is the interpolation between its tightest
\* known scores around the queried score, rounded either way at a tie
InterpolatedBetweenKnown(p) ==
    LET x == result.score
        h == SetMin(KnownAbove(p, x))
        l == SetMax(KnownBelow(p, x))
    IN  \E r \in 1..ReturnedTotal(p) :
            /\ NearestToInterpolation(r, x, h, l, StoredAt(p, h), StoredAt(p, l))
            /\ ReturnedRank(p) = r

\* C18: a valid score that is not a known score of the population and
\* lies strictly between two of its known scores gets the rank
\* round(rank(h) + ((score - h) / (l - h)) * (rank(l) - rank(h))) of the
\* tightest such scores h > score > l, clamped.
C18_InterpolatesBetweenTightestKnown ==
    (Answered /\ ValidScore(result.score)) =>
        \A p \in Populations :
            (/\ result.score \notin Known(p)
             /\ KnownAbove(p, result.score) # {}
             /\ KnownBelow(p, result.score) # {})
                => InterpolatedBetweenKnown(p)

\* the scores of the shared axis above and below a score
SharedAbove(x) == {s \in ScoresCity \cup ScoresInner : s > x}
SharedBelow(x) == {s \in ScoresCity \cup ScoresInner : s < x}

\* twice the numerator of the interpolated value over the denominator h - l
InterpolationNumerator(x, h, l, rh, rl) == rh * (h - l) + (h - x) * (rl - rh)

\* C19: when the interpolated value is exactly k + 0.5 the returned rank,
\* before clamping, is k + 1 (ties rounded away from zero), for even and
\* for odd k.  Stated where the two bracketing scores of the shared axis
\* both carry data for the population.
C19_TiesRoundedUp ==
    (Answered /\ ValidScore(result.score)) =>
        \A p \in Populations :
            (/\ result.score \notin Known(p)
             /\ SharedAbove(result.score) # {}
             /\ SharedBelow(result.score) # {}
             /\ SetMin(SharedAbove(result.score)) \in Known(p)
             /\ SetMax(SharedBelow(result.score)) \in Known(p)) =>
                LET x == result.score
                    h == SetMin(SharedAbove(x))
                    l == SetMax(SharedBelow(x))
                    num == InterpolationNumerator(x, h, l, StoredAt(p, h),
                                                  StoredAt(p, l))
                    k == num \div (h - l)
                IN  2 * (num % (h - l)) = h - l =>
                        ReturnedRank(p) = Clamp(k + 1, ReturnedTotal(p))

\* C20: when the score right above or right below the queried score on the
\* shared axis has no data for the population, each side is widened on its
\* own to the nearest score that has: the rank is the interpolation between
\* those two scores, rank 1 if no score of the population lies above, the
\* population's total if none lies below.
C20_WidensPerSide ==
    (Answered /\ ValidScore(result.score)) =>
        \A p \in Populations :
            (/\ result.score \notin Known(p)
             /\ \/ /\ SharedAbove(result.score) # {}
                   /\ SetMin(SharedAbove(result.score)) \notin Known(p)
                \/ /\ SharedBelow(result.score) # {}
                   /\ SetMax(SharedBelow(result.score)) \notin Known(p)) =>
                IF KnownAbove(p, result.score) = {}
                THEN ReturnedRank(p) = TopRank
                ELSE IF KnownBelow(p, result.score) = {}
                THEN ReturnedRank(p) = ReturnedTotal(p)
                ELSE InterpolatedBetweenKnown(p)

\* the outcome of get_interpolation_details
Detailed == result.status = "details"

\* how the rank of a population is produced for the queried score
\* (BoundaryHigh and BoundaryLow are both reported as "boundary")
ProducedBy(p) ==
    IF result.score \in Known(p) THEN "exact"
    ELSE IF KnownAbove(p, result.score) = {} \/ KnownBelow(p, result.score) = {}
    THEN "boundary"
    ELSE "interpolation"

\* C21: the method reported with a rank agrees, per population, with how
\* the rank was produced: exact exactly when the score is a known score of
\* the population, boundary exactly when no score of the population lies
\* on one side, and interpolation, naming the two scores used, otherwise.
C21_MethodAgreesPerPopulation ==
    /\ (Answered /\ ValidScore(result.score)) =>
           \A p \in Populations :
               /\ result.calculation_method.kind = ProducedBy(p)
               /\ ProducedBy(p) = "interpolation" =>
                      /\ result.calculation_method.higher
                             = SetMin(KnownAbove(p, result.score))
                      /\ result.calculation_method.lower
                             = SetMax(KnownBelow(p, result.score))
    /\ (Detailed /\ ValidScore(result.score)) =>
           /\ result.method = ProducedBy(result.rank_type)
           /\ result.method = "interpolation" =>
                  /\ result.higher_score
                         = SetMin(KnownAbove(result.rank_type, result.score))
                  /\ result.lower_score
                         = SetMax(KnownBelow(result.rank_type, result.score))

-----------------------------------------------------------------------------
(* Properties of the rank analyzer *)

\* the five levels, lowest first
LevelOrder == <<"to_improve", "average", "good", "excellent", "top">>

\* the position of a level in LevelOrder; 0 for anything else
LevelIndex(level) ==
    IF \E k \in 1..5 : LevelOrder[k] = level
    THEN CHOOSE k \in 1..5 : LevelOrder[k] = level
    ELSE 0

\* the lower bound of each level, lowest first, in hundredths of a percent
LevelFloor == <<0, 50 * 100, 70 * 100, 85 * 100, 95 * 100>>

\* C15: every percentile in [0, 100] gets exactly one of five levels, the
\* one whose inclusive lower bound (95, 85, 70, 50, else 0) is the largest
\* not above it, and of two analysed percentiles the higher one never gets
\* the lower level.
C15_TiersTotalAndOrdered ==
    /\ analysis # NoResult =>
           /\ LevelIndex(analysis.level) \in 1..5
           /\ \A k \in 1..5 :
                  LevelIndex(analysis.level) = k <=>
                      /\ analysis.percentage >= LevelFloor[k]
                      /\ (k < 5 => analysis.percentage < LevelFloor[k + 1])
    /\ (analysis # NoResult /\ seen # NoResult
           /\ seen.percentage <= analysis.percentage) =>
               LevelIndex(seen.level) <= LevelIndex(analysis.level)

\* a percentile of exactly 95 analysed after a lower one of another level
C15_Witness ==
    /\ analysis # NoResult
    /\ seen # NoResult
    /\ analysis.percentage = 95 * 100
    /\ analysis.level = "top"
    /\ seen.percentage = 95 * 100 - 1
    /\ seen.level = "excellent"

-----------------------------------------------------------------------------
(* Properties of repeated queries *)

\* C16: with no data change and no cache invalidation, a query answers
\* as an earlier query of the same entry point with the same score and
\* year did (ranks, totals, percentages and method of both populations,
\* or the same error), whatever was queried in between.
C16_RepeatedQueryIdentical ==
    /\ (kept # NoResult /\ result # NoResult
           /\ kept.call = "calculate_enhanced_rank"
           /\ kept.asked = asked) =>
               result = kept.outcome
    /\ (kept # NoResult /\ svc # NoResult
           /\ kept.call = "service"
           /\ kept.asked = asked) =>
               svc = kept.outcome

\* an interpolated service rank asked again after the interpolators of
\* both years were built and the engine built a calculator
C16_Witness ==
    /\ kept # NoResult
    /\ kept.call = "service"
    /\ kept.asked = asked
    /\ svc = kept.outcome
    /\ svc.status = "ok"
    /\ svc.year = KnownYear
    /\ svc.calculation_method = "linear_interpolation"
    /\ DOMAIN interpolators = DbYears
    /\ db[KnownYear] # PreviousYearTable
    /\ calc.loaded

-----------------------------------------------------------------------------
(* Properties of concurrent callers *)

\* every record of the year with students, by falling score
CompleteRecords ==
    SelectSeq(db[KnownYear], LAMBDA r : r.inner_six > 0)

\* C17: with concurrent callers of one year, the record list in the
\* cache, the interpolator in the cache, the list or interpolator a caller
\* holds after a cache read, and the calculator a caller computes with are
\* complete: nothing partially built is visible to a caller that reads it.
C17_NoPartialTableVisible ==
    /\ \A y \in DOMAIN cache.records : cache.records[y] = CompleteRecords
    /\ \A y \in DOMAIN interpolators : interpolators[y] = CompleteRecords
    /\ \A t \in DOMAIN threads :
           /\ threads[t].pc \in {"have_records", "store", "use_interpolator"}
                  => threads[t].records = CompleteRecords
           /\ threads[t].pc = "calculate" => threads[t].stage = 3

\* a caller in the middle of building its list while another caller holds
\* the list it read from the cache
C17_Witness ==
    \E t, u \in DOMAIN threads :
        /\ threads[t].pc = "fetch"
        /\ threads[t].records # <<>>
        /\ threads[t].records # CompleteRecords
        /\ threads[u].pc = "have_records"
        /\ KnownYear \in DOMAIN cache.records

-----------------------------------------------------------------------------
(* Properties of the ratio windows *)

\* lo < admission_rank / rank <= hi and lo <= admission_rank / rank <= hi,
\* with the limits in hundredths
OpenClosed(s, lo, hi) ==
    lo * rec.rank < 100 * s.key_rank /\ 100 * s.key_rank <= hi * rec.rank
Closed(s, lo, hi) ==
    lo * rec.rank <= 100 * s.key_rank /\ 100 * s.key_rank <= hi * rec.rank

\* the schools of a list, as a set
Members(seq) == {seq[k] : k \in DOMAIN seq}

\* a bucket of the first pass holds only schools of its window and is
\* full whenever a school of its window was left out
FirstPassBucket(bucket, n, InWindow(_)) ==
    /\ \A s \in Members(bucket) : InWindow(s)
    /\ \A s \in Members(rec.schools) :
           (InWindow(s) /\ s \notin Members(bucket)) => Len(bucket) = n

\* C22 as stated: the first pass appends to reach only if
\* 0.75 < ratio <= 0.95, to match only if 0.95 < ratio <= 1.15, to safety
\* only if 1.15 < ratio <= 1.40, and always when the bucket is not full.
C22_AsStated ==
    Recommended =>
        /\ FirstPassBucket(rec.first.attack, rec.scheme[1],
                           LAMBDA s : OpenClosed(s, 75, 95))
        /\ FirstPassBucket(rec.first.stable, rec.scheme[2],
                           LAMBDA s : OpenClosed(s, 95, 115))
        /\ FirstPassBucket(rec.first.safe, rec.scheme[3],
                           LAMBDA s : OpenClosed(s, 115, 140))

\* C22: the first pass appends to reach only if 0.75 <= ratio <= 0.95 (the
\* lower bound included), to match only if 0.95 < ratio <= 1.15, to safety
\* only if 1.15 < ratio <= 1.40, and always when the bucket is not full.
C22_FirstPassWindows ==
    Recommended =>
        /\ FirstPassBucket(rec.first.attack, rec.scheme[1],
                           LAMBDA s : Closed(s, 75, 95))
        /\ FirstPassBucket(rec.first.stable, rec.scheme[2],
                           LAMBDA s : OpenClosed(s, 95, 115))
        /\ FirstPassBucket(rec.first.safe, rec.scheme[3],
                           LAMBDA s : OpenClosed(s, 115, 140))

\* a first pass that put a school of ratio exactly 0.75 and one of ratio
\* exactly 0.95 into reach
C22_Witness ==
    /\ Recommended
    /\ \E s \in Members(rec.first.attack) : 100 * s.key_rank = 75 * rec.rank
    /\ \E s \in Members(rec.first.attack) : 100 * s.key_rank = 95 * rec.rank

\* the schools a backfill step appended to a bucket
Added(before, after) == SubSeq(after, Len(before) + 1, Len(after))

IsPrefix(before, after) ==
    /\ Len(before) <= Len(after)
    /\ SubSeq(after, 1, Len(before)) = before

\* one backfill step: the bucket grows at its end by unplaced schools of
\* the window, lowest admission rank first, until it holds n schools or no
\* such school is left; a full bucket stays as it is
BackfillStep(before, after, n, placed, InWindow(_)) ==
    LET added == Added(before, after)
        candidates == {s \in Members(rec.schools) :
                          InWindow(s) /\ s \notin placed}
    IN  /\ IsPrefix(before, after)
        /\ Len(before) >= n => after = before
        /\ Len(after) <= Max(n, Len(before))
        /\ Members(added) \subseteq candidates
        /\ Ascending(added)
        /\ \A s \in candidates \ Members(added) :
               /\ Len(after) >= n
               /\ \A t \in Members(added) : t.key_rank <= s.key_rank

\* the schools placed when the backfill of reach, of match and of safety
\* starts
PlacedBeforeAttack == Members(Placed(rec.first))
PlacedBeforeStable ==
    Members(rec.attack) \cup Members(rec.first.stable) \cup Members(rec.first.safe)
PlacedBeforeSafe ==
    Members(rec.attack) \cup Members(rec.stable) \cup Members(rec.first.safe)

\* C23 as stated: a bucket short after the first pass is filled with the
\* unplaced schools of its widened window (0.70, 0.95], (0.90, 1.20] or
\* (1.10, 1.60], lower bounds excluded, in ascending admission rank.
C23_AsStated ==
    Recommended =>
        /\ BackfillStep(rec.first.attack, rec.attack, rec.scheme[1],
                        PlacedBeforeAttack, LAMBDA s : OpenClosed(s, 70, 95))
        /\ BackfillStep(rec.first.stable, rec.stable, rec.scheme[2],
                        PlacedBeforeStable, LAMBDA s : OpenClosed(s, 90, 120))
        /\ BackfillStep(rec.first.safe, rec.safe, rec.scheme[3],
                        PlacedBeforeSafe, LAMBDA s : OpenClosed(s, 110, 160))

\* C23: a bucket short after the first pass is filled with the unplaced
\* schools of its widened window [0.70, 0.95], [0.90, 1.20] or [1.10, 1.60],
\* both bounds included, in ascending admission rank, until it holds its
\* requested count or no candidate is left; a full bucket is unchanged.
C23_BackfillWindows ==
    Recommended =>
        /\ BackfillStep(rec.first.attack, rec.attack, rec.scheme[1],
                        PlacedBeforeAttack, LAMBDA s : Closed(s, 70, 95))
        /\ BackfillStep(rec.first.stable, rec.stable, rec.scheme[2],
                        PlacedBeforeStable, LAMBDA s : Closed(s, 90, 120))
        /\ BackfillStep(rec.first.safe, rec.safe, rec.scheme[3],
                        PlacedBeforeSafe, LAMBDA s : Closed(s, 110, 160))

\* the backfill appended a school of ratio exactly 0.70 to reach and left a
\* bucket that the first pass had filled as it was
C23_Witness ==
    /\ Recommended
    /\ \E s \in Members(Added(rec.first.attack, rec.attack)) :
           100 * s.key_rank = 70 * rec.rank
    /\ \E f \in {"stable", "safe"} :
           /\ Len(rec.first[f]) = rec.scheme[IF f = "stable" THEN 2 ELSE 3]
           /\ rec[f] = rec.first[f]

\* a school left unplaced by the first pass that two widened windows admit
\* goes to the earlier bucket if that bucket was short and still has room,
\* and a school in the earlier bucket is in no later one
EarlierTakes(s, lo1, hi1, lo2, hi2, before, earlier, n, later) ==
    (/\ s \notin PlacedBeforeAttack
     /\ Closed(s, lo1, hi1)
     /\ Closed(s, lo2, hi2)
     /\ Len(before) < n)
        => /\ s \in Members(earlier) \/ Len(earlier) = n
           /\ s \in Members(earlier) => s \notin Members(later)

\* C24: the backfill runs reach, match, safety, each step seeing what the
\* earlier steps placed: match is never given a school that reach holds,
\* safety never one that reach or match holds, and an unplaced school that
\* two widened windows admit is taken by the earlier bucket when it is short.
C24_BackfillInOrder ==
    Recommended =>
        /\ Members(Added(rec.first.stable, rec.stable))
               \cap Members(rec.attack) = {}
        /\ Members(Added(rec.first.safe, rec.safe))
               \cap (Members(rec.attack) \cup Members(rec.stable)) = {}
        /\ \A s \in Members(rec.schools) :
               /\ EarlierTakes(s, 70, 95, 90, 120, rec.first.attack,
                               rec.attack, rec.scheme[1], rec.stable)
               /\ EarlierTakes(s, 90, 120, 110, 160, rec.first.stable,
                               rec.stable, rec.scheme[2], rec.safe)

\* the backfill of match took a school that the widened windows of match
\* and of safety both admit, and the backfill of reach had run before it
C24_Witness ==
    /\ Recommended
    /\ \E s \in Members(Added(rec.first.stable, rec.stable)) :
           Closed(s, 90, 120) /\ Closed(s, 110, 160)
    /\ Len(rec.first.attack) < Len(rec.attack)

\* C26: every school of a returned bucket has its ratio inside the widest
\* window of that bucket, reach [0.70, 0.95], match [0.90, 1.20], safety
\* [1.10, 1.60]; no returned school has a ratio below 0.70 or above 1.60.
C26_ReturnedInsideWidestWindow ==
    Recommended =>
        /\ \A s \in Members(rec.attack) : Closed(s, 70, 95)
        /\ \A s \in Members(rec.stable) : Closed(s, 90, 120)
        /\ \A s \in Members(rec.safe) : Closed(s, 110, 160)
        /\ \A s \in Members(Placed(rec)) : Closed(s, 70, 160)

\* reach returned with a school of ratio 0.70 and safety with one of ratio
\* 1.60, safety still short, and a school of ratio above 1.60 left out
C26_Witness ==
    /\ Recommended
    /\ \E s \in Members(rec.attack) : 100 * s.key_rank = 70 * rec.rank
    /\ \E s \in Members(rec.safe) : 100 * s.key_rank = 160 * rec.rank
    /\ Len(rec.safe) < rec.scheme[3]
    /\ \E s \in Members(rec.schools) : 100 * s.key_rank > 160 * rec.rank

-----------------------------------------------------------------------------
(* The rank engine and the rank service on one table of the six districts *)

\* the rows of score_records that hold the six-district counts of a table
\* of the data provider
SameInnerTable(t) ==
    [i \in DOMAIN t |-> DbRecord(KnownYear, t[i].score, t[i].inner_six)]

\* the tables both components are given: the city counts are those of the
\* six districts, and no or at least two rows have students
CompareTables ==
    {t \in YearTables :
        /\ \A i \in DOMAIN t : t[i].total_city = t[i].inner_six
        /\ Cardinality({i \in DOMAIN t : t[i].inner_six > 0}) # 1}

InitCompare ==
    /\ data \in {[y \in {KnownYear} |-> t] : t \in CompareTables}
    /\ calc = NoCalc
    /\ result = NoResult
    /\ db = [y \in {KnownYear} |-> SameInnerTable(data[KnownYear])]
    /\ cache = NoCache
    /\ interpolators = <<>>
    /\ svc = NoResult
    /\ loads = 0
    /\ kept = NoResult
    /\ asked = NoResult
    /\ threads = <<>>
    /\ RecommendIdle
    /\ AnalysisIdle
    /\ LoggerIdle

NextCompare ==
    \/ NewCalculator(KnownYear)
    \/ \E score \in QueryScores : CalculateRank(score)
    \/ \E score \in QueryScores : ServiceCalculateRank(score, KnownYear)
    \/ ReturnRank
    \/ ReturnService

SpecCompare == InitCompare /\ [][NextCompare]_vars

\* C28: on the same table of the six districts the rank service and the
\* rank engine return the same six-district rank for every valid score,
\* above the highest, below the lowest and at absent integer scores as well.
C28_ServiceAndEngineAgree ==
    (/\ result.status = "ok"
     /\ svc.status = "ok"
     /\ result.score = svc.score)
        => result.inner_rank = svc.rank

-----------------------------------------------------------------------------
(* Threads calling log_request on the one request_logger *)

\* the run has calls left
CallsLeft(calls) == Len(made) + InProgress < calls

InitLogger ==
    /\ logfile = EmptyLog
    /\ lock = NoHolder
    /\ loggers = [t \in 1..NumLoggers |-> IdleLogger]
    /\ made = <<>>
    /\ http = NoResult
    /\ RankIdle
    /\ RecommendIdle
    /\ AnalysisIdle
    /\ ServiceIdle

NextLogger ==
    \/ \E t \in DOMAIN loggers, call \in LogCalls :
           CallsLeft(MaxLogCalls) /\ StartLog(t, call)
    \/ \E t \in DOMAIN loggers : Acquire(t)
    \/ \E t \in DOMAIN loggers : ReadLog(t)
    \/ \E t \in DOMAIN loggers : WriteLog(t)

SpecLogger == InitLogger /\ [][NextLogger]_vars

-----------------------------------------------------------------------------
(* One caller of log_request on a file that is one entry short of its cap *)

\* the entries the file holds at the start: requests to /rank without a
\* key, answered with 200
StoredBefore == MaxRequests - 1
EarlierCalls ==
    [i \in 1..StoredBefore |->
        [timestamp |-> i, call |-> LogCall("/rank", NoKey, 200)]]

\* the calls of the caller
FullCalls ==
    {LogCall("/rank", k, s) : k \in {NoKey, LongKeyA}, s \in LogStatusCodes}

InitLogFull ==
    /\ logfile = [requests |->
                      [i \in 1..StoredBefore |->
                          request_log(EarlierCalls[i].call, i)],
                  key_stats |-> <<>>]
    /\ lock = NoHolder
    /\ loggers = [t \in {1} |-> IdleLogger]
    /\ made = EarlierCalls
    /\ http = NoResult
    /\ RankIdle
    /\ RecommendIdle
    /\ AnalysisIdle
    /\ ServiceIdle

NextLogFull ==
    \/ \E t \in DOMAIN loggers, call \in FullCalls :
           CallsLeft(StoredBefore + MaxLogCalls) /\ StartLog(t, call)
    \/ \E t \in DOMAIN loggers : Acquire(t)
    \/ \E t \in DOMAIN loggers : ReadLog(t)
    \/ \E t \in DOMAIN loggers : WriteLog(t)

SpecLogFull == InitLogFull /\ [][NextLogFull]_vars

-----------------------------------------------------------------------------
(* POST /rank: backend/api.py, with the key verification of api_auth.py *)

\* number of requests of one run
MaxApiRequests == 2

\* "TJ-EDU-2025-PREMIUM", the first of EXAMPLE_VALID_KEYS
ValidKey == <<"T", "J", "-", "E", "D", "U", "-", "2", "0", "2", "5", "-",
              "P", "R", "E", "M", "I", "U", "M">>
EXAMPLE_VALID_KEYS == {ValidKey}
\* the keys sent in the header X-API-Key; no key of the model has its
\* SHA-256 value in VALID_API_KEY_HASHES
ApiKeys == {NoKey, ValidKey, LongKeyA}

\* the status codes verify_api_key_with_delay chooses from
ERROR_STATUS_CODES == {500, 502, 503, 504, 429}

\* validate_api_key
validate_api_key(api_key) == api_key # NoKey /\ api_key \in EXAMPLE_VALID_KEYS

\* verify_api_key_with_delay: True for a valid key; otherwise, by chance,
\* an HTTPException with one of the error codes or False
verify_api_key_with_delay(api_key) ==
    IF validate_api_key(api_key)
    THEN {[raised |-> FALSE, is_valid |-> TRUE, status_code |-> 200]}
    ELSE {[raised |-> FALSE, is_valid |-> FALSE, status_code |-> 200]}
         \cup {[raised |-> TRUE, is_valid |-> FALSE, status_code |-> s] :
                   s \in ERROR_STATUS_CODES}

\* ScoreQuery: score: float = Field(..., ge=0, le=800)
ScoreQueryOk(score) == 0 <= score /\ score <= 800 * Unit

\* len(score_str) - decimal_index - 1 for score_str = str(query.score):
\* the shortest decimal text of the float, with one digit at least
DecimalDigits(score) ==
    IF score % 10 # 0 THEN 3
    ELSE IF score % 100 # 0 THEN 2
    ELSE 1

\* decimal_index != -1 and len(score_str) - decimal_index - 1 > 2
TooManyDecimals(score) == DecimalDigits(score) > 2

\* the status an HTTPException raised inside the second try block ends
\* with: except Exception catches it, logs 500 and raises a 500
CaughtInTry(status_code) == 500

\* the scores of the requests: 750, 750.12, 750.123, 0.005 and 800.01
ApiScores == {750 * Unit, 750120, 750123, 5, 800 * Unit + 10}

\* query_rank: the status of the answer and the log_request calls made
query_rank(api_key, score, v) ==
    LET c == CalculatorFor(KnownYear)
        r == calculate_rank(c, score)
        failed == [status_code |-> CaughtInTry(500),
                   calls |-> <<LogCall("/rank", api_key, 500)>>]
    IN  IF v.raised
        THEN [status_code |-> v.status_code,
              calls |-> <<LogCall("/rank", api_key, v.status_code)>>]
        ELSE IF TooManyDecimals(score)
        THEN [status_code |-> CaughtInTry(400),
              calls |-> <<LogCall("/rank", api_key, 500)>>]
        ELSE IF ~c.loaded \/ r.status # "ok"
        THEN failed
        ELSE IF EnhancedResult(r).total_students = 0
        THEN failed
        ELSE [status_code |-> 200,
              calls |-> <<LogCall("/rank", api_key, 200)>>]

RECURSIVE LogAll(_, _)
\* the file after the log_request calls of one request
LogAll(file_data, calls) ==
    IF calls = <<>> THEN file_data
    ELSE LogAll(log_request(file_data, Head(calls), Now(file_data)),
                Tail(calls))

\* POST /rank with a body that FastAPI rejects (422) or hands to query_rank
QueryRank(api_key, score, v) ==
    LET q == query_rank(api_key, score, v)
        answer == IF ScoreQueryOk(score) THEN q
                  ELSE [status_code |-> 422, calls |-> <<>>]
    IN  /\ Len(made) < MaxApiRequests
        /\ lock = NoHolder
        /\ logfile' = LogAll(logfile, answer.calls)
        /\ made' = made \o [i \in DOMAIN answer.calls |->
                                [timestamp |-> Now(logfile) + i - 1,
                                 call |-> answer.calls[i]]]
        /\ http' = [status |-> "answered", api_key |-> api_key,
                    score |-> score, verified |-> ~v.raised,
                    status_code |-> answer.status_code,
                    logged |-> answer.calls]
        /\ UNCHANGED <<lock, loggers, outsideLogger>>

\* the tables of the data provider: those of RepeatTables, or none
InitApi ==
    /\ data \in {[y \in {KnownYear} |-> t] : t \in RepeatTables} \cup {<<>>}
    /\ calc = NoCalc
    /\ result = NoResult
    /\ logfile = EmptyLog
    /\ lock = NoHolder
    /\ loggers = <<>>
    /\ made = <<>>
    /\ http = NoResult
    /\ RecommendIdle
    /\ AnalysisIdle
    /\ ServiceIdle

NextApi ==
    \E api_key \in ApiKeys, score \in ApiScores :
        \E v \in verify_api_key_with_delay(api_key) :
            QueryRank(api_key, score, v)

SpecApi == InitApi /\ [][NextApi]_vars

-----------------------------------------------------------------------------
(* Properties of the request logger *)

\* the key prefix a call is counted under: the key itself up to ten
\* characters, its first ten characters and an ellipsis beyond
PrefixOf(api_key) ==
    IF Len(api_key) <= 10 THEN api_key
    ELSE [i \in 1..13 |-> IF i <= 10 THEN api_key[i] ELSE "."]

\* the calls made so far with a key of the prefix
CallsWithPrefix(id) ==
    {i \in DOMAIN made :
        made[i].call.api_key # <<>> /\ PrefixOf(made[i].call.api_key) = id}

RECURSIVE SumOver(_, _)
SumOver(f, keys) ==
    IF keys = {} THEN 0
    ELSE LET k == CHOOSE x \in keys : TRUE
         IN  f[k] + SumOver(f, keys \ {k})

\* C29: at any point of any interleaving of log_request calls, the
\* statistics of a key prefix satisfy total_requests = successful_requests
\* + failed_requests = the sum of the per-endpoint counts, and
\* total_requests is the number of calls made with that key prefix.
C29_KeyStatsConsistent ==
    /\ \A i \in DOMAIN made :
           made[i].call.api_key # <<>> =>
               PrefixOf(made[i].call.api_key) \in DOMAIN logfile.key_stats
    /\ \A id \in DOMAIN logfile.key_stats :
           LET stats == logfile.key_stats[id]
           IN  /\ stats.total_requests
                      = stats.successful_requests + stats.failed_requests
               /\ stats.total_requests
                      = SumOver(stats.endpoints, DOMAIN stats.endpoints)
               /\ stats.total_requests = Cardinality(CallsWithPrefix(id))

\* one call with a key is counted, a second thread holds the lock with the
\* file read, and a third call with a key of the same prefix waits for it
C29_Witness ==
    \E t1, t2 \in DOMAIN loggers :
        /\ loggers[t1].pc = "acquire"
        /\ loggers[t2].pc = "write"
        /\ lock = t2
        /\ loggers[t1].call.api_key = LongKeyA
        /\ loggers[t2].call.api_key = LongKeyB
        /\ \E id \in DOMAIN logfile.key_stats :
               /\ id = PrefixOf(LongKeyA)
               /\ logfile.key_stats[id].total_requests = 1

\* the entry a call leaves in the stored list
EntryOf(m) ==
    [timestamp |-> m.timestamp, endpoint |-> m.call.endpoint,
     api_key |-> PrefixOf(m.call.api_key), status_code |-> m.call.status_code]

\* C30: after any sequence of log_request calls the stored list holds at
\* most 1000 entries, and they are the entries of the most recent calls in
\* the order the calls arrived.
C30_KeepsMostRecentThousand ==
    LET n == Len(logfile.requests)
        m == Len(made)
    IN  /\ n <= 1000
        /\ n = IF m <= 1000 THEN m ELSE 1000
        /\ \A i \in 1..n : logfile.requests[i] = EntryOf(made[m - n + i])

\* more than 1000 calls were made, the oldest entries are gone and the
\* newest entry is the failed request of a key
C30_Witness ==
    /\ Len(made) > 1000
    /\ Len(logfile.requests) = 1000
    /\ logfile.requests[1].timestamp = 3
    /\ logfile.requests[1000].status_code = 500
    /\ logfile.requests[1000].api_key # <<>>

\* C27: a POST /rank that passes the key verification with a score of
\* more than two decimal digits is answered with HTTP 400 and logged
\* exactly once, with that same status.
C27_TooPreciseScoreIs400 ==
    (/\ http.status = "answered"
     /\ http.verified
     /\ 0 <= http.score /\ http.score <= 800 * Unit
     /\ http.score % 10 # 0)
        => /\ http.status_code = 400
           /\ Len(http.logged) = 1
           /\ http.logged[1].status_code = http.status_code

-----------------------------------------------------------------------------
(* Properties of the caches of the rank service *)

\* clear_cache of the service returns
ClearReturns ==
    \E t \in DOMAIN threads :
        threads[t].pc = "clear_dao" /\ threads'[t].pc = "idle"

\* C25: between two consecutive invalidations the rows of the year are
\* queried at most once, whatever the interleaving of readers and
\* clear_cache calls, and when clear_cache returns the record cache of the
\* DAO and the interpolator cache of the service are both empty.
C25_LoadedOncePerInvalidation ==
    /\ [](loads <= 1)
    /\ [][ClearReturns => (cache' = NoCache /\ interpolators' = <<>>)]_vars

====
